---- MODULE Spec2Model ----
(***************************************************************************)
(* A model of kvm-manager (src-tauri): the VmManager reconciler with its   *)
(* vm_cache, the Tauri commands that reach it through Arc<RwLock<..>>, and *)
(* the MonitoringService collector loop.  The hypervisor (libvirt) is the  *)
(* environment: every call the code makes on it is answered with one of    *)
(* the outcomes that call can have.                                        *)
(***************************************************************************)
EXTENDS Integers, Sequences, FiniteSets, TLC

VARIABLES
    hv,            \* libvirt: uuid -> domain, for every domain the connection lists
    usedUuids,     \* uuids already handed out by Uuid::new_v4 / libvirt
    vm_cache,      \* VmManager.vm_cache : HashMap<String, VirtualMachine>
    pc,            \* per command task: "idle", "wait", "run", "sampling"
    cmd,           \* per command task: the Tauri command it is executing; while
                   \* it queues for the lock, the kind of guard it asked for
    lockQueue,     \* tasks waiting for the RwLock<VmManager>, oldest first
    handle,        \* per command task: the Domain a sleeping get_vm_stats holds
    last,          \* what the step just taken returned (NoReturn otherwise)
    monPc,         \* MonitoringService::start_monitoring: "tick" or "collect"
    monOutcome,    \* how the latest collector tick went: "none", "ok", "failed"
    monLogged,     \* whether start_monitoring logged an Err of that tick
    metrics_history, \* MonitoringService.metrics_history: key -> ages of its points
    queryReturn,   \* what the latest get_metric_history was asked and returned
    sysPc,         \* SystemMonitor::start_monitoring: "idle", "running", "deadlocked"
    sysClock,      \* Utc::now().timestamp() of the latest collector tick
    sysCurrent,    \* SYSTEM_CACHE["current"]: the second it was taken (-1: absent)
    sysHistory,    \* the seconds s with a key history_<s> in SYSTEM_CACHE
    sysEvicted,    \* the history keys the latest collector tick removed
    xmlDoc,        \* the descriptor handed to XmlParser::parse_vm_from_xml
    xmlFrom,        \* the profile and configuration xmlDoc was generated from
    xmlInfo,       \* the VmXmlInfo parse_vm_from_xml returned for xmlDoc
    memCounters,   \* what get_info and memory_stats report to get_memory_stats
    memReturn,     \* the (used, total) get_memory_stats returned for them
    listReturn,    \* what the latest list_vms of the listing check returned
    call           \* the VmManager method called last, on its own: what it was
                   \* given, what it met and the outcome it left

vars == <<hv, usedUuids, vm_cache, pc, cmd, lockQueue, handle, last,
          monPc, monOutcome, monLogged, metrics_history, queryReturn,
          sysPc, sysClock, sysCurrent, sysHistory, sysEvicted,
          xmlDoc, xmlFrom, xmlInfo, memCounters, memReturn, listReturn, call>>

mgrVars == <<usedUuids, vm_cache, pc, cmd, lockQueue, handle, last>>
monVars == <<monPc, monOutcome, monLogged, metrics_history, queryReturn>>
sysVars == <<sysPc, sysClock, sysCurrent, sysHistory, sysEvicted>>
\* the state of the components beside VmManager and MonitoringService
xmlVars == <<xmlDoc, xmlFrom, xmlInfo>>
memVars == <<memCounters, memReturn>>
sideVars == <<sysVars, xmlVars, memVars, listReturn, call>>

----------------------------------------------------------------------------
(* Bounds of the model *)

MaxUuid == 2

\* the 24 hours cleanup_old_metrics keeps a point, in collection intervals
RetentionTicks == 3

\* the 100 entries start_monitoring lets SYSTEM_CACHE grow to
MaxCacheLen == 4

\* the seconds the system collector is followed for
MaxSysClock == 6

\* the most disk elements of a descriptor
MaxDisks == 2

\* the 2^64 values of a u64, in MB
WordModulus == 64

\* the state codes above VIR_DOMAIN_PMSUSPENDED a hypervisor is taken to report
MaxUnknownStates == 2

\* the longest window Utc::now() can be moved back by without leaving the
\* range of DateTime, in collection intervals
MaxDateWindow == 4

\* the longest std Duration chrono::Duration::from_std converts, in
\* collection intervals
MaxChronoWindow == 5

----------------------------------------------------------------------------
(* libvirt domain state codes (virt::sys) *)

VIR_DOMAIN_NOSTATE == 0
VIR_DOMAIN_RUNNING == 1
VIR_DOMAIN_BLOCKED == 2
VIR_DOMAIN_PAUSED == 3
VIR_DOMAIN_SHUTDOWN == 4
VIR_DOMAIN_SHUTOFF == 5
VIR_DOMAIN_CRASHED == 6
VIR_DOMAIN_PMSUSPENDED == 7

Tasks == {"t1", "t2"}

\* Uuid::new_v4().to_string(): a non-empty string, never handed out twice
UuidOf(k) == "uuid-" \o ToString(k)
Uuids == {UuidOf(k) : k \in 1..MaxUuid}

Names == {"vmA", "vmB"}

\* what a caller may pass as vm_id: the identifier or the name of a domain,
\* or a string that is neither ("ghost" stands for all of those)
IdArgs(h) == DOMAIN h \cup {h[u].name : u \in DOMAIN h} \cup {"ghost"}

\* Uuid::new_v4: the identifiers are interchangeable, so the next one handed
\* out is the lowest one not handed out yet
FreshUuids(used) ==
    IF Cardinality(used) < MaxUuid THEN {UuidOf(Cardinality(used) + 1)} ELSE {}

NotFound == ""

\* VmConfig, the fields create_vm reads
Configs ==
    { [name |-> "vmA", memory |-> 2048, vcpus |-> 2, disk_size |-> 10],
      [name |-> "vmB", memory |-> 128,  vcpus |-> 1, disk_size |-> 1],
      [name |-> "",    memory |-> 2048, vcpus |-> 2, disk_size |-> 10],
      [name |-> "vmA", memory |-> 127,  vcpus |-> 2, disk_size |-> 10],
      [name |-> "vmB", memory |-> 2048, vcpus |-> 0, disk_size |-> 10],
      [name |-> "vmB", memory |-> 2048, vcpus |-> 2, disk_size |-> 0] }

NoConfig == [name |-> "", memory |-> 0, vcpus |-> 0, disk_size |-> 0]

\* descriptor files import_vm_from_xml may be pointed at (name, memory, vcpus)
ImportFiles ==
    { [name |-> "vmA", memory |-> 2097152, unit |-> "KiB", vcpus |-> 2,
       agent |-> FALSE],
      [name |-> "vmB", memory |-> 128,     unit |-> "MiB", vcpus |-> 1,
       agent |-> FALSE] }

----------------------------------------------------------------------------
(* The hypervisor, as the code sees it through the virt crate *)

\* Domain::is_active
IsActive(dom) == dom.state \in {VIR_DOMAIN_RUNNING, VIR_DOMAIN_BLOCKED,
                                VIR_DOMAIN_PAUSED, VIR_DOMAIN_SHUTDOWN,
                                VIR_DOMAIN_PMSUSPENDED}

RemoveKey(f, k) == [x \in DOMAIN f \ {k} |-> f[x]]
PutKey(f, k, v) == [x \in DOMAIN f \cup {k} |-> IF x = k THEN v ELSE f[x]]

\* libvirt reads <memory unit='..'> and keeps KiB
ToKiB(value, unit) == IF unit = "MiB" THEN value * 1024 ELSE value

\* Domain::define_xml succeeding: a persistent, shut-off domain.  `agent`
\* says whether the descriptor declares the org.qemu.guest_agent.0 channel.
HvDefine(h, xml) ==
    PutKey(h, xml.uuid, [name |-> xml.name,
                         memory |-> ToKiB(xml.memory, xml.unit),
                         vcpus |-> xml.vcpus,
                         agent |-> xml.agent,
                         state |-> VIR_DOMAIN_SHUTOFF,
                         persistent |-> TRUE])

\* libvirt refuses a definition whose name or uuid another domain holds,
\* and one without a name, without memory or without a vCPU
DefineRefused(h, xml) ==
    \/ xml.uuid \in DOMAIN h
    \/ \E u \in DOMAIN h : h[u].name = xml.name
    \/ xml.name = ""
    \/ xml.memory = 0
    \/ xml.vcpus = 0

\* Domain::create succeeding
HvStart(h, u) == [h EXCEPT ![u].state = VIR_DOMAIN_RUNNING]

\* the guest stops (on its own, after a shutdown request, or on destroy):
\* a persistent domain is left shut off, a transient one disappears
HvPowerOff(h, u) ==
    IF h[u].persistent THEN [h EXCEPT ![u].state = VIR_DOMAIN_SHUTOFF]
                       ELSE RemoveKey(h, u)

\* Domain::undefine succeeding: an active domain goes on running, transient
HvUndefine(h, u) ==
    IF IsActive(h[u]) THEN [h EXCEPT ![u].persistent = FALSE]
                      ELSE RemoveKey(h, u)

----------------------------------------------------------------------------
(* Return values: Result<T, KvmError> with the payloads the commands carry *)

NoStats == [valid |-> FALSE, cpu_usage |-> 0, guest_agent_connected |-> FALSE]

Ok0 == [status |-> "Ok", err |-> "", msg |-> "", id |-> "", vms |-> <<>>,
        stats |-> NoStats]
OkId(id) == [Ok0 EXCEPT !.id = id]
OkVms(vms) == [Ok0 EXCEPT !.vms = vms]
OkStats(st) == [Ok0 EXCEPT !.stats = st]
Err(kind, msg) == [Ok0 EXCEPT !.status = "Err", !.err = kind, !.msg = msg]

\* what a VmManager method leaves behind: the hypervisor, the cache, the uuids
\* handed out, the value returned and the requests it sent to the hypervisor
Outcome(h, cache, used, ret, reqs) ==
    [hv |-> h, cache |-> cache, used |-> used, ret |-> ret, reqs |-> reqs]

----------------------------------------------------------------------------
(* VmManager, private helpers *)

\* the outcome token of a failing domain_to_vm for domain u in listing `tag`
ConvFail(tag, u) == "convert" \o tag \o "-" \o u

GetDomainById(h, vm_id, fails) ==
    IF "lookup" \in fails THEN NotFound
    ELSE IF vm_id \in DOMAIN h THEN vm_id
    ELSE IF \E u \in DOMAIN h : h[u].name = vm_id
         THEN CHOOSE u \in DOMAIN h : h[u].name = vm_id
    ELSE NotFound

\* a match that takes a code it does not know for a stopped domain
MapStateUnknownStopped(code) ==
    CASE code = VIR_DOMAIN_RUNNING -> "Running"
      [] code = VIR_DOMAIN_BLOCKED -> "Running"
      [] code = VIR_DOMAIN_PAUSED -> "Paused"
      [] code = VIR_DOMAIN_SHUTDOWN -> "ShuttingDown"
      [] code = VIR_DOMAIN_CRASHED -> "Error"
      [] code = VIR_DOMAIN_PMSUSPENDED -> "Suspended"
      [] OTHER -> "Stopped"

\* the match on info.state in domain_to_vm
MapState(code) ==
    CASE code = VIR_DOMAIN_NOSTATE -> "Stopped"
      [] code = VIR_DOMAIN_RUNNING -> "Running"
      [] code = VIR_DOMAIN_BLOCKED -> "Running"
      [] code = VIR_DOMAIN_PAUSED -> "Paused"
      [] code = VIR_DOMAIN_SHUTDOWN -> "ShuttingDown"
      [] code = VIR_DOMAIN_SHUTOFF -> "Stopped"
      [] code = VIR_DOMAIN_CRASHED -> "Error"
      [] code = VIR_DOMAIN_PMSUSPENDED -> "Suspended"
      [] OTHER -> "Error"

DomainToVm(h, u) ==
    [id |-> u,
     name |-> h[u].name,
     state |-> MapState(h[u].state),
     memory |-> h[u].memory \div 1024,
     vcpus |-> h[u].vcpus]

\* list_all_domains: the defined and the running domains, in the connection's order
RECURSIVE EnumerateFrom(_, _)
EnumerateFrom(h, k) ==
    IF k > MaxUuid THEN <<>>
    ELSE (IF UuidOf(k) \in DOMAIN h THEN <<UuidOf(k)>> ELSE <<>>)
         \o EnumerateFrom(h, k + 1)

\* a listing that gives up at the first domain it cannot convert
RECURSIVE ConvertAllUntilError(_, _, _, _)
ConvertAllUntilError(h, domains, fails, tag) ==
    IF domains = <<>> THEN <<>>
    ELSE IF ConvFail(tag, Head(domains)) \in fails THEN <<>>
    ELSE <<DomainToVm(h, Head(domains))>>
         \o ConvertAllUntilError(h, Tail(domains), fails, tag)

RECURSIVE ConvertAll(_, _, _, _)
ConvertAll(h, domains, fails, tag) ==
    IF domains = <<>> THEN <<>>
    ELSE (IF ConvFail(tag, Head(domains)) \in fails
             THEN <<>>                                \* Err(e) => continue
             ELSE <<DomainToVm(h, Head(domains))>>)   \* Ok(vm) => vms.push(vm)
         \o ConvertAll(h, Tail(domains), fails, tag)

ListVms(h, fails, tag) ==
    IF ("list" \o tag) \in fails
    THEN Err("LibvirtConnection", "list_all_domains")
    ELSE OkVms(ConvertAll(h, EnumerateFrom(h, 1), fails, tag))

\* a variant that files the record under the domain's name
CacheInsertByName(cache, vm) == PutKey(cache, vm.name, vm)

\* self.vm_cache.insert(vm.id.clone(), vm)
CacheInsert(cache, vm) == PutKey(cache, vm.id, vm)

RECURSIVE InsertAll(_, _)
InsertAll(cache, vms) ==
    IF vms = <<>> THEN cache
    ELSE InsertAll(CacheInsert(cache, Head(vms)), Tail(vms))

EmptyMap == [x \in {} |-> x]

\* a variant that refills the cache without clearing it
RefreshVmCacheNoClear(h, cache, fails) ==
    LET l == ListVms(h, fails, "")
    IN  IF l.status = "Err"
        THEN [cache |-> cache, ret |-> l]
        ELSE [cache |-> InsertAll(cache, l.vms), ret |-> Ok0]

\* refresh_vm_cache: the listing first; only then clear and refill
RefreshVmCache(h, cache, fails) ==
    LET l == ListVms(h, fails, "")
    IN  IF l.status = "Err"
        THEN [cache |-> cache, ret |-> l]
        ELSE [cache |-> InsertAll(EmptyMap, l.vms), ret |-> Ok0]

MinMemoryMb == 128

\* a variant without the memory floor
ValidateVmConfigNoFloor(config) ==
    IF config.name = "" THEN "VM name cannot be empty"
    ELSE IF config.vcpus = 0 THEN "Must have at least 1 vCPU"
    ELSE IF config.disk_size < 1 THEN "Disk size must be at least 1 GB"
    ELSE ""

\* validate_vm_config: "" for Ok(()), else the InvalidVmConfig message
ValidateVmConfig(config) ==
    IF config.name = "" THEN "VM name cannot be empty"
    ELSE IF config.memory < MinMemoryMb THEN "Memory must be at least 128 MB"
    ELSE IF config.vcpus = 0 THEN "Must have at least 1 vCPU"
    ELSE IF config.disk_size < 1 THEN "Disk size must be at least 1 GB"
    ELSE ""

\* a variant that writes the memory figure as KiB
GenerateVmXmlKiB(config, vm_id) ==
    [name |-> config.name, uuid |-> vm_id,
     memory |-> config.memory, unit |-> "KiB", vcpus |-> config.vcpus,
     agent |-> FALSE]

\* generate_vm_xml: the elements of the descriptor libvirt reads back
GenerateVmXml(config, vm_id) ==
    [name |-> config.name, uuid |-> vm_id,
     memory |-> config.memory, unit |-> "MiB", vcpus |-> config.vcpus,
     agent |-> FALSE]

----------------------------------------------------------------------------
(* VmManager, the public operations.  `fails` names the hypervisor calls    *)
(* that return Err during this execution.                                   *)

\* a variant that undefines the domain again when it cannot start it
CreateVmRollingBack(h, cache, used, config, vm_id, fails) ==
    LET v   == ValidateVmConfig(config)
        xml == GenerateVmXml(config, vm_id)
        h1  == HvDefine(h, xml)
        h2  == HvStart(h1, vm_id)
        rf  == RefreshVmCache(h2, cache, fails)
    IN  IF v # ""
        THEN Outcome(h, cache, used, Err("InvalidVmConfig", v), <<>>)
        ELSE IF "define" \in fails \/ DefineRefused(h, xml)
        THEN Outcome(h, cache, used,
                     Err("VmOperationFailed", "Failed to create VM"), <<"define">>)
        ELSE IF "create" \in fails
        THEN Outcome(h, cache, used \cup {vm_id},
                     Err("VmOperationFailed", "Failed to start VM"),
                     <<"define", "create", "undefine">>)
        ELSE IF rf.ret.status = "Err"
        THEN Outcome(h2, cache, used \cup {vm_id}, rf.ret, <<"define", "create">>)
        ELSE Outcome(h2, rf.cache, used \cup {vm_id}, OkId(vm_id),
                     <<"define", "create">>)

\* create_vm(config), with vm_id the uuid Uuid::new_v4 yields
CreateVm(h, cache, used, config, vm_id, fails) ==
    LET v   == ValidateVmConfig(config)
        xml == GenerateVmXml(config, vm_id)
        h1  == HvDefine(h, xml)
        h2  == HvStart(h1, vm_id)
        rf  == RefreshVmCache(h2, cache, fails)
    IN  IF v # ""
        THEN Outcome(h, cache, used, Err("InvalidVmConfig", v), <<>>)
        ELSE IF "define" \in fails \/ DefineRefused(h, xml)
        THEN Outcome(h, cache, used,
                     Err("VmOperationFailed", "Failed to create VM"), <<"define">>)
        ELSE IF "create" \in fails
        THEN Outcome(h1, cache, used \cup {vm_id},
                     Err("VmOperationFailed", "Failed to start VM"),
                     <<"define", "create">>)
        ELSE IF rf.ret.status = "Err"
        THEN Outcome(h2, cache, used \cup {vm_id}, rf.ret, <<"define", "create">>)
        ELSE Outcome(h2, rf.cache, used \cup {vm_id}, OkId(vm_id),
                     <<"define", "create">>)

\* a variant that asks for the start whatever is_active says
StartVmNoCheck(h, cache, used, vm_id, fails) ==
    LET d == GetDomainById(h, vm_id, fails)
    IN  IF d = NotFound
        THEN Outcome(h, cache, used, Err("VmNotFound", vm_id), <<>>)
        ELSE IF "create" \in fails
        THEN Outcome(h, cache, used,
                     Err("VmOperationFailed", "Failed to start VM"), <<"create">>)
        ELSE Outcome(HvStart(h, d), cache, used, Ok0, <<"create">>)

\* start_vm(vm_id)
StartVm(h, cache, used, vm_id, fails) ==
    LET d == GetDomainById(h, vm_id, fails)
    IN  IF d = NotFound
        THEN Outcome(h, cache, used, Err("VmNotFound", vm_id), <<>>)
        ELSE IF "is_active" \in fails
        THEN Outcome(h, cache, used, Err("LibvirtConnection", "is_active"), <<>>)
        ELSE IF IsActive(h[d])
        THEN Outcome(h, cache, used, Ok0, <<>>)
        ELSE IF "create" \in fails
        THEN Outcome(h, cache, used,
                     Err("VmOperationFailed", "Failed to start VM"), <<"create">>)
        ELSE Outcome(HvStart(h, d), cache, used, Ok0, <<"create">>)

\* a variant that always follows the shutdown request with the forced stop
StopVmAlwaysDestroy(h, cache, used, vm_id, fails) ==
    LET d == GetDomainById(h, vm_id, fails)
    IN  IF d = NotFound
        THEN Outcome(h, cache, used, Err("VmNotFound", vm_id), <<>>)
        ELSE IF "destroy" \in fails \/ ~IsActive(h[d])
        THEN Outcome(h, cache, used,
                     Err("VmOperationFailed", "Failed to stop VM"),
                     <<"shutdown", "destroy">>)
        ELSE Outcome(HvPowerOff(h, d), cache, used, Ok0, <<"shutdown", "destroy">>)

\* stop_vm(vm_id): shutdown() only asks the guest to stop; destroy() stops it.
\* libvirt answers either request on an inactive domain with an error.
StopVm(h, cache, used, vm_id, fails) ==
    LET d == GetDomainById(h, vm_id, fails)
    IN  IF d = NotFound
        THEN Outcome(h, cache, used, Err("VmNotFound", vm_id), <<>>)
        ELSE IF ~("shutdown" \in fails \/ ~IsActive(h[d]))
        THEN Outcome(h, cache, used, Ok0, <<"shutdown">>)
        ELSE IF "destroy" \in fails \/ ~IsActive(h[d])
        THEN Outcome(h, cache, used,
                     Err("VmOperationFailed", "Failed to stop VM"),
                     <<"shutdown", "destroy">>)
        ELSE Outcome(HvPowerOff(h, d), cache, used, Ok0, <<"shutdown", "destroy">>)

\* the lookup stop_vm repeats inside delete_vm answers as delete_vm's own did
StopFails(fails) == fails \ {"lookup"}

\* a variant that drops the cache entry before it asks for the undefine
DeleteVmEvictFirst(h, cache, used, vm_id, fails) ==
    LET d  == GetDomainById(h, vm_id, fails)
        st == StopVm(h, cache, used, vm_id, StopFails(fails))
        stopped == d # NotFound /\ IsActive(h[d])
        h1 == IF stopped THEN st.hv ELSE h
        r1 == IF stopped THEN st.reqs ELSE <<>>
        h2 == IF "guest_off" \in fails /\ d \in DOMAIN h1 /\ IsActive(h1[d])
              THEN HvPowerOff(h1, d) ELSE h1
    IN  IF d = NotFound
        THEN Outcome(h, cache, used, Err("VmNotFound", vm_id), <<>>)
        ELSE IF "is_active" \in fails
        THEN Outcome(h, cache, used, Err("LibvirtConnection", "is_active"), <<>>)
        ELSE IF stopped /\ st.ret.status = "Err"
        THEN Outcome(h1, cache, used, st.ret, r1)
        ELSE IF "undefine" \in fails \/ d \notin DOMAIN h2 \/ ~h2[d].persistent
        THEN Outcome(h2, RemoveKey(cache, vm_id), used,
                     Err("VmOperationFailed", "Failed to delete VM"),
                     r1 \o <<"undefine">>)
        ELSE Outcome(HvUndefine(h2, d), RemoveKey(cache, vm_id), used, Ok0,
                     r1 \o <<"undefine">>)

\* delete_vm(vm_id).  Between the stop and the undefine the guest may or may
\* not have powered off ("guest_off").  The cache entry removed is the one
\* whose key is the string the caller passed.
DeleteVm(h, cache, used, vm_id, fails) ==
    LET d  == GetDomainById(h, vm_id, fails)
        st == StopVm(h, cache, used, vm_id, StopFails(fails))
        stopped == d # NotFound /\ IsActive(h[d])
        h1 == IF stopped THEN st.hv ELSE h
        r1 == IF stopped THEN st.reqs ELSE <<>>
        h2 == IF "guest_off" \in fails /\ d \in DOMAIN h1 /\ IsActive(h1[d])
              THEN HvPowerOff(h1, d) ELSE h1
    IN  IF d = NotFound
        THEN Outcome(h, cache, used, Err("VmNotFound", vm_id), <<>>)
        ELSE IF "is_active" \in fails
        THEN Outcome(h, cache, used, Err("LibvirtConnection", "is_active"), <<>>)
        ELSE IF stopped /\ st.ret.status = "Err"
        THEN Outcome(h1, cache, used, st.ret, r1)
        ELSE IF "undefine" \in fails \/ d \notin DOMAIN h2 \/ ~h2[d].persistent
        THEN Outcome(h2, cache, used,
                     Err("VmOperationFailed", "Failed to delete VM"),
                     r1 \o <<"undefine">>)
        ELSE Outcome(HvUndefine(h2, d), RemoveKey(cache, vm_id), used, Ok0,
                     r1 \o <<"undefine">>)

\* import_vm_from_xml(xml_path): file is what the path holds, uuid the one
\* the descriptor carries or libvirt assigns
ImportVmFromXml(h, cache, used, file, uuid, fails) ==
    LET xml == [name |-> file.name, uuid |-> uuid, memory |-> file.memory,
                unit |-> file.unit, vcpus |-> file.vcpus, agent |-> file.agent]
        h1  == HvDefine(h, xml)
        rf  == RefreshVmCache(h1, cache, fails)
    IN  IF "read" \in fails
        THEN Outcome(h, cache, used,
                     Err("VmOperationFailed", "Failed to read XML file"), <<>>)
        ELSE IF "define" \in fails \/ DefineRefused(h, xml)
        THEN Outcome(h, cache, used,
                     Err("VmOperationFailed", "Failed to import VM"), <<"define">>)
        ELSE IF "get_name" \in fails
        THEN Outcome(h1, cache, used \cup {uuid},
                     Err("LibvirtConnection", "get_name"), <<"define">>)
        ELSE IF rf.ret.status = "Err"
        THEN Outcome(h1, cache, used \cup {uuid}, rf.ret, <<"define">>)
        ELSE Outcome(h1, rf.cache, used \cup {uuid}, OkId(uuid), <<"define">>)

\* create_proxmox_vm(name, proxmox_path, memory_gb, vcpus): no
\* validate_vm_config; the name must be free and the image must exist.  Its
\* descriptor declares the guest agent channel.  The domain is not started.
CreateProxmoxVm(h, cache, used, name, memory_gb, vcpus, image_exists, vm_id, fails) ==
    LET xml == [name |-> name, uuid |-> vm_id, memory |-> memory_gb * 1024,
                unit |-> "MiB", vcpus |-> vcpus, agent |-> TRUE]
        h1  == HvDefine(h, xml)
        rf  == RefreshVmCache(h1, cache, fails)
    IN  IF \E u \in DOMAIN h : h[u].name = name
        THEN Outcome(h, cache, used,
                     Err("VmOperationFailed", "VM with name already exists"), <<>>)
        ELSE IF ~image_exists
        THEN Outcome(h, cache, used,
                     Err("VmOperationFailed", "Proxmox image not found"), <<>>)
        ELSE IF "define" \in fails \/ DefineRefused(h, xml)
        THEN Outcome(h, cache, used,
                     Err("VmOperationFailed", "Failed to create Proxmox VM"),
                     <<"define">>)
        ELSE IF rf.ret.status = "Err"
        THEN Outcome(h1, cache, used \cup {vm_id}, rf.ret, <<"define">>)
        ELSE Outcome(h1, rf.cache, used \cup {vm_id}, OkId(vm_id), <<"define">>)

\* create_vm_from_qcow2(qcow2_path, vm_name, memory_mb, vcpus, ..): no
\* validate_vm_config either; the image must exist.  generate_qcow2_vm_xml
\* writes the memory in KiB and declares no guest agent channel.
CreateVmFromQcow2(h, cache, used, vm_name, memory_mb, vcpus, file_exists, vm_uuid, fails) ==
    LET xml == [name |-> vm_name, uuid |-> vm_uuid, memory |-> memory_mb * 1024,
                unit |-> "KiB", vcpus |-> vcpus, agent |-> FALSE]
        h1  == HvDefine(h, xml)
        rf  == RefreshVmCache(h1, cache, fails)
    IN  IF ~file_exists
        THEN Outcome(h, cache, used,
                     Err("VmOperationFailed", "qcow2 file not found"), <<>>)
        ELSE IF "define" \in fails \/ DefineRefused(h, xml)
        THEN Outcome(h, cache, used,
                     Err("VmOperationFailed", "Failed to create VM"), <<"define">>)
        ELSE IF rf.ret.status = "Err"
        THEN Outcome(h1, cache, used \cup {vm_uuid}, rf.ret, <<"define">>)
        ELSE Outcome(h1, rf.cache, used \cup {vm_uuid}, OkId(vm_uuid), <<"define">>)

\* refresh_vm_list: refresh_vm_cache()? and then a second listing
RefreshVmList(h, cache, used, fails) ==
    LET rf == RefreshVmCache(h, cache, fails)
    IN  IF rf.ret.status = "Err"
        THEN Outcome(h, cache, used, rf.ret, <<>>)
        ELSE Outcome(h, rf.cache, used, ListVms(h, fails, "2"), <<>>)

\* the list_vms the get_vms command makes
GetVms(h, cache, used, fails) == Outcome(h, cache, used, ListVms(h, fails, ""), <<>>)

----------------------------------------------------------------------------
(* get_vm_stats: up to the sleep of get_cpu_usage_percentage, and after it  *)

\* CPU percentages are kept in hundredths of a percent, CPU time in
\* milliseconds: (time_diff as f64 / 100_000_000.0).min(100.0)
CpuFromDiff(diff_ms) == IF diff_ms < 10000 THEN diff_ms ELSE 10000

\* what `ps -eo comm,pcpu` yields for the domain: -1 for no usable line
ProcCpu == {-1, 1250, 25000}
TimeDiffs == {0, 50, 20000}

\* get_cpu_usage_percentage(..).unwrap_or(0.0)
GetCpuUsagePercentage(samples_ok, diff_ms, name_ok, proc) ==
    IF samples_ok /\ diff_ms > 0 THEN CpuFromDiff(diff_ms)
    ELSE IF name_ok /\ proc # -1 THEN proc
    ELSE 0

MakeStats(cpu) ==
    [valid |-> TRUE, cpu_usage |-> cpu, guest_agent_connected |-> FALSE]

\* a variant that does not look at is_active
StatsBeginNoCheck(h, vm_id, fails, proc) ==
    LET d == GetDomainById(h, vm_id, fails)
    IN  IF d = NotFound
        THEN [next |-> "return", dom |-> "", ret |-> Err("VmNotFound", vm_id)]
        ELSE IF "get_info" \in fails
        THEN [next |-> "return", dom |-> "",
              ret |-> Err("LibvirtConnection", "get_info")]
        ELSE IF "info1" \in fails
        THEN [next |-> "return", dom |-> "",
              ret |-> OkStats(MakeStats(
                  GetCpuUsagePercentage(FALSE, 0, "get_name" \notin fails, proc)))]
        ELSE [next |-> "sleep", dom |-> d, ret |-> Ok0]

\* the part of get_vm_stats before the first CPU sample: "sleep" when it goes
\* on to tokio::time::sleep, "return" with the value otherwise
StatsBegin(h, vm_id, fails, proc) ==
    LET d == GetDomainById(h, vm_id, fails)
    IN  IF d = NotFound
        THEN [next |-> "return", dom |-> "", ret |-> Err("VmNotFound", vm_id)]
        ELSE IF "is_active" \in fails
        THEN [next |-> "return", dom |-> "",
              ret |-> Err("LibvirtConnection", "is_active")]
        ELSE IF ~IsActive(h[d])
        THEN [next |-> "return", dom |-> "",
              ret |-> Err("VmOperationFailed", "VM is not running")]
        ELSE IF "get_info" \in fails
        THEN [next |-> "return", dom |-> "",
              ret |-> Err("LibvirtConnection", "get_info")]
        ELSE IF "info1" \in fails
        THEN [next |-> "return", dom |-> "",
              ret |-> OkStats(MakeStats(
                  GetCpuUsagePercentage(FALSE, 0, "get_name" \notin fails, proc)))]
        ELSE [next |-> "sleep", dom |-> d, ret |-> Ok0]

\* the part after the sleep: the second sample and the rest of the snapshot
StatsEnd(fails, diff_ms, proc) ==
    OkStats(MakeStats(GetCpuUsagePercentage("info2" \notin fails, diff_ms,
                                            "get_name" \notin fails, proc)))

\* get_vm_stats as a whole: the sleep separates the two parts
GetVmStats(h, vm_id, begin, end) ==
    LET b == StatsBegin(h, vm_id, begin.fails, begin.proc)
    IN  IF b.next = "sleep" THEN StatsEnd(end.fails, end.diff, end.proc) ELSE b.ret

\* MonitoringService::check_guest_agent: the descriptor is searched for the
\* channel name; a descriptor that cannot be fetched counts as no agent
CheckGuestAgent(dom, fails) == "get_xml_desc" \notin fails /\ dom.agent

\* MonitoringService::get_real_time_stats, as far as the flag goes: a
\* service built without a connection ("connection" in fails) returns a
\* snapshot of zeroes; the lookup is by uuid only
GetRealTimeStats(h, vm_id, fails) ==
    IF "connection" \in fails
    THEN OkStats([valid |-> TRUE, cpu_usage |-> 0, guest_agent_connected |-> FALSE])
    ELSE IF "lookup" \in fails \/ vm_id \notin DOMAIN h
    THEN Err("VmNotFound", vm_id)
    ELSE IF "get_info" \in fails
    THEN Err("LibvirtConnection", "get_info")
    ELSE OkStats([valid |-> TRUE, cpu_usage |-> 0,
                  guest_agent_connected |-> CheckGuestAgent(h[vm_id], fails)])

----------------------------------------------------------------------------
(* The Tauri commands: each takes the RwLock<VmManager> for reading or for  *)
(* writing, runs one VmManager method and drops the guard on return         *)

Ops == {"get_vms", "create_vm", "start_vm", "stop_vm", "delete_vm",
        "get_vm_stats", "import_vm_from_xml", "refresh_vms"}

\* state.write().await in create_vm, delete_vm, import_vm_from_xml and
\* refresh_vms; state.read().await in the others
LockMode(op) ==
    IF op \in {"create_vm", "delete_vm", "import_vm_from_xml", "refresh_vms"}
    THEN "write" ELSE "read"

Holders == {t \in Tasks : pc[t] \in {"run", "sampling"}}

\* tokio::sync::RwLock: readers share, a writer excludes everyone
CanAcquire(mode) ==
    IF mode = "write"
    THEN Holders = {}
    ELSE \A h \in Holders : LockMode(cmd[h]) = "read"

\* what a command was called with and met: its vm_id argument, its VmConfig,
\* which of the lookup and the is_active query the hypervisor failed, and
\* whether the command resumed from a sleep
Inputs(arg, config, fails) ==
    [arg |-> arg, config |-> config,
     fails |-> fails \cap {"lookup", "is_active"}, resumed |-> FALSE]

NoReturn ==
    [task |-> "", op |-> "", arg |-> "", config |-> NoConfig, fails |-> {},
     resumed |-> FALSE, ret |-> Ok0, reqs |-> <<>>,
     hv0 |-> EmptyMap, cache0 |-> EmptyMap]

\* the record of a return: the command, its inputs, the value returned, the
\* requests sent, and the hypervisor and the cache as the method found them
Returned(t, inp, ret, reqs) ==
    [task |-> t, op |-> cmd[t], arg |-> inp.arg, config |-> inp.config,
     fails |-> inp.fails, resumed |-> inp.resumed, ret |-> ret,
     reqs |-> reqs, hv0 |-> hv, cache0 |-> vm_cache]

\* the method returns: its effects, its value, and the guard is dropped
Finish(t, inp, o) ==
    /\ hv' = o.hv
    /\ vm_cache' = o.cache
    /\ usedUuids' = o.used
    /\ last' = Returned(t, inp, o.ret, o.reqs)
    /\ pc' = [pc EXCEPT ![t] = "idle"]
    /\ cmd' = [cmd EXCEPT ![t] = ""]
    /\ handle' = [handle EXCEPT ![t] = ""]
    /\ UNCHANGED <<lockQueue, monVars, sideVars>>

\* the tasks are interchangeable: a new command runs in the first idle one
FirstIdle == CHOOSE t \in Tasks : pc[t] = "idle" /\ (t = "t1" \/ pc["t1"] # "idle")

\* a command is invoked: state.read().await / state.write().await returns at
\* once when the lock is free and nobody queues, and queues otherwise (the
\* queue is first in, first out).  Of a queued command only the kind of guard
\* it asked for matters until it is granted.
Invoke(t, op) ==
    /\ last = NoReturn
    /\ pc[t] = "idle"
    /\ t = FirstIdle
    /\ IF lockQueue = <<>> /\ CanAcquire(LockMode(op))
       THEN /\ pc' = [pc EXCEPT ![t] = "run"]
            /\ cmd' = [cmd EXCEPT ![t] = op]
            /\ UNCHANGED lockQueue
       ELSE /\ pc' = [pc EXCEPT ![t] = "wait"]
            /\ cmd' = [cmd EXCEPT ![t] = LockMode(op)]
            /\ lockQueue' = Append(lockQueue, t)
    /\ UNCHANGED <<hv, usedUuids, vm_cache, handle, last, monVars, sideVars>>

\* the oldest waiter is granted the lock once the holders allow it
Acquire(t) ==
    /\ last = NoReturn
    /\ pc[t] = "wait"
    /\ lockQueue # <<>> /\ Head(lockQueue) = t
    /\ CanAcquire(cmd[t])
    /\ \E op \in Ops : /\ LockMode(op) = cmd[t]
                       /\ cmd' = [cmd EXCEPT ![t] = op]
    /\ pc' = [pc EXCEPT ![t] = "run"]
    /\ lockQueue' = Tail(lockQueue)
    /\ UNCHANGED <<hv, usedUuids, vm_cache, handle, last, monVars, sideVars>>

\* the caller has taken the value the command returned
Deliver ==
    /\ last # NoReturn
    /\ last' = NoReturn
    /\ UNCHANGED <<hv, usedUuids, vm_cache, pc, cmd, lockQueue, handle, monVars, sideVars>>

Running(t, op) == last = NoReturn /\ pc[t] = "run" /\ cmd[t] = op

\* the ways the conversions of one listing can fail: any of the domains listed
ConvFails(h, tag) == SUBSET {ConvFail(tag, u) : u \in DOMAIN h}

\* the ways a listing can fail: list_all_domains itself, or conversions
ListFails(h, tag) == {{"list" \o tag}} \cup ConvFails(h, tag)

\* the ways stop_vm's requests can fail: shutdown, or shutdown and then destroy
StopFailures == {{}, {"shutdown"}, {"shutdown", "destroy"}}

\* the ways delete_vm can go: a failing call, and whether the guest has
\* powered off by the time of the undefine when it was only asked to
DeleteFailures ==
    {{"lookup"}, {"is_active"}, {"shutdown", "destroy"}}
    \cup {s \cup u : s \in {{}, {"guest_off"}, {"shutdown"}},
                     u \in {{}, {"undefine"}}}

\* what get_vm_stats meets before its sleep: the failing calls, and the
\* `ps` figure where the code falls back on it
StatsBeginInputs ==
    {[fails |-> f, proc |-> -1] :
        f \in {{}, {"lookup"}, {"is_active"}, {"get_info"}, {"info1", "get_name"}}}
    \cup {[fails |-> {"info1"}, proc |-> p] : p \in ProcCpu}

\* what it meets after the sleep: the CPU time consumed meanwhile, or a
\* failing second sample and the `ps` figure
StatsEndInputs ==
    {[fails |-> {}, diff |-> d, proc |-> -1] : d \in TimeDiffs \ {0}}
    \cup {[fails |-> f, diff |-> 0, proc |-> p] : f \in {{}, {"info2"}}, p \in ProcCpu}
    \cup {[fails |-> {"info2", "get_name"}, diff |-> 0, proc |-> 1250]}

RunGetVms(t) ==
    /\ Running(t, "get_vms")
    /\ \E fails \in ListFails(hv, "") :
         Finish(t, Inputs("", NoConfig, fails),
                GetVms(hv, vm_cache, usedUuids, fails))

RunCreateVm(t) ==
    /\ Running(t, "create_vm")
    /\ \E config \in Configs :
         IF ValidateVmConfig(config) # ""
         THEN Finish(t, Inputs("", config, {}),
                     CreateVm(hv, vm_cache, usedUuids, config, "", {}))
         ELSE \E vm_id \in FreshUuids(usedUuids) :
              \E fails \in {{"define"}, {"create"}}
                           \cup ListFails(HvDefine(hv, GenerateVmXml(config, vm_id)), "") :
                Finish(t, Inputs("", config, fails),
                       CreateVm(hv, vm_cache, usedUuids, config, vm_id, fails))

RunStartVm(t) ==
    /\ Running(t, "start_vm")
    /\ \E vm_id \in IdArgs(hv),
          fails \in {{}, {"lookup"}, {"is_active"}, {"create"}} :
         Finish(t, Inputs(vm_id, NoConfig, fails),
                StartVm(hv, vm_cache, usedUuids, vm_id, fails))

RunStopVm(t) ==
    /\ Running(t, "stop_vm")
    /\ \E vm_id \in IdArgs(hv), fails \in {{"lookup"}} \cup StopFailures :
         Finish(t, Inputs(vm_id, NoConfig, fails),
                StopVm(hv, vm_cache, usedUuids, vm_id, fails))

RunDeleteVm(t) ==
    /\ Running(t, "delete_vm")
    /\ \E vm_id \in IdArgs(hv), fails \in DeleteFailures :
         Finish(t, Inputs(vm_id, NoConfig, fails),
                DeleteVm(hv, vm_cache, usedUuids, vm_id, fails))

RunImportVm(t) ==
    /\ Running(t, "import_vm_from_xml")
    /\ \E file \in ImportFiles, uuid \in FreshUuids(usedUuids) :
       \E fails \in {{"read"}, {"define"}, {"get_name"}}
                    \cup ListFails(PutKey(hv, uuid, 0), "") :
         Finish(t, Inputs(file.name, NoConfig, fails),
                ImportVmFromXml(hv, vm_cache, usedUuids, file, uuid, fails))

RunRefreshVms(t) ==
    /\ Running(t, "refresh_vms")
    /\ \E f1 \in ListFails(hv, ""), f2 \in ListFails(hv, "2") :
       \E fails \in {f1 \cup f2} :
         Finish(t, Inputs("", NoConfig, fails),
                RefreshVmList(hv, vm_cache, usedUuids, fails))

\* get_vm_stats up to the sleep; the read guard stays held across the await
RunStatsBegin(t) ==
    /\ Running(t, "get_vm_stats")
    /\ \E vm_id \in IdArgs(hv), inp \in StatsBeginInputs :
         LET b == StatsBegin(hv, vm_id, inp.fails, inp.proc)
         IN  IF b.next = "sleep"
             THEN /\ pc' = [pc EXCEPT ![t] = "sampling"]
                  /\ handle' = [handle EXCEPT ![t] = b.dom]
                  /\ UNCHANGED <<hv, usedUuids, vm_cache, cmd, lockQueue, last,
                                 monVars, sideVars>>
             ELSE Finish(t, Inputs(vm_id, NoConfig, inp.fails),
                         Outcome(hv, vm_cache, usedUuids, b.ret, <<>>))

\* the sleep is over: second sample, the other statistics, return
RunStatsEnd(t) ==
    /\ last = NoReturn
    /\ pc[t] = "sampling"
    /\ \E inp \in StatsEndInputs :
         Finish(t, [Inputs(handle[t], NoConfig, inp.fails) EXCEPT !.resumed = TRUE],
                Outcome(hv, vm_cache, usedUuids,
                        StatsEnd(inp.fails, inp.diff, inp.proc), <<>>))

\* the guest of an active domain powers off
GuestPowerOff(u) ==
    /\ last = NoReturn
    /\ u \in DOMAIN hv
    /\ IsActive(hv[u])
    /\ hv' = HvPowerOff(hv, u)
    /\ UNCHANGED <<usedUuids, vm_cache, pc, cmd, lockQueue, handle, last, monVars, sideVars>>

----------------------------------------------------------------------------
(* MonitoringService: the collector loop and its metrics_history.  A point  *)
(* is kept as its age in collection intervals; its value is left out.       *)

HostMetricTypes == {"cpu_usage", "memory_usage", "memory_total",
                    "load_1", "load_5", "load_15"}
VmMetricTypes == {"cpu_usage", "memory_usage", "disk_read", "disk_write",
                  "network_rx", "network_tx"}

\* format!("{}:{}", vm_id, metric_type)
MetricKey(vm_id, metric_type) == vm_id \o ":" \o metric_type

\* store_metric for each of the metric types of one source: a point of age 0
\* is pushed onto the series, which is created when missing
StoreMetrics(hist, vm_id, types) ==
    LET keys == {MetricKey(vm_id, m) : m \in types}
    IN  [k \in DOMAIN hist \cup keys |->
            IF k \in keys
            THEN Append(IF k \in DOMAIN hist THEN hist[k] ELSE <<>>, 0)
            ELSE hist[k]]

RECURSIVE StoreAll(_, _)
StoreAll(hist, vm_ids) ==
    IF vm_ids = <<>> THEN hist
    ELSE StoreAll(StoreMetrics(hist, Head(vm_ids), VmMetricTypes), Tail(vm_ids))

\* point.timestamp > cutoff_time
Retained(points) == SelectSeq(points, LAMBDA age : age < RetentionTicks)

\* a purge that forgets the second retain
CleanupKeepEmptySeries(hist) == [k \in DOMAIN hist |-> Retained(hist[k])]

\* cleanup_old_metrics: drop the old points, then the empty series
CleanupOldMetrics(hist) ==
    [k \in {x \in DOMAIN hist : Retained(hist[x]) # <<>>} |-> Retained(hist[k])]

\* the outcome token of a failing get_real_time_stats for domain u
StatsFail(u) == "stats-" \o u

RECURSIVE ActiveFrom(_, _)
ActiveFrom(h, k) ==
    IF k > MaxUuid THEN <<>>
    ELSE (IF UuidOf(k) \in DOMAIN h /\ IsActive(h[UuidOf(k)])
             THEN <<UuidOf(k)>> ELSE <<>>)
         \o ActiveFrom(h, k + 1)

\* a variant that hands a failing listing to its caller
CollectMetricsPropagating(h, hist, fails) ==
    LET h1 == StoreMetrics(hist, "host", HostMetricTypes)
        vm_metrics == SelectSeq(ActiveFrom(h, 1), LAMBDA u : StatsFail(u) \notin fails)
    IN  IF "list" \in fails
        THEN [hist |-> h1, ret |-> Err("LibvirtConnection", "list_all_domains")]
        ELSE [hist |-> CleanupOldMetrics(StoreAll(h1, vm_metrics)), ret |-> Ok0]

\* collect_metrics: host metrics, then those of every active domain whose
\* statistics can be had, then the cleanup; every failure is skipped
CollectMetrics(h, hist, fails) ==
    LET h1 == StoreMetrics(hist, "host", HostMetricTypes)
        vm_metrics ==
            IF "list" \in fails THEN <<>>
            ELSE SelectSeq(ActiveFrom(h, 1), LAMBDA u : StatsFail(u) \notin fails)
    IN  [hist |-> CleanupOldMetrics(StoreAll(h1, vm_metrics)), ret |-> Ok0]

\* whether something the collection asked of the hypervisor failed
CollectionFailed(h, fails) ==
    \/ "list" \in fails
    \/ \E u \in DOMAIN h : IsActive(h[u]) /\ StatsFail(u) \in fails

\* the ways one collection can fail
CollectFails(h) ==
    {{"list"}} \cup SUBSET {StatsFail(u) : u \in {x \in DOMAIN h : IsActive(h[x])}}

\* the body of the loop in start_monitoring after collect_metrics returned:
\* an Err is logged, and the loop goes on to the next tick either way
AfterCollect(ret) == [pc |-> "tick", logged |-> ret.status = "Err"]

\* chrono::Duration::from_std(duration).unwrap_or_default(): a Duration
\* beyond chrono's range does not convert and the default, zero, is taken
FromStd(duration) == IF duration > MaxChronoWindow THEN 0 ELSE duration

\* the windows a caller may ask for: up to Duration::MAX, which is beyond
\* chrono's range
Windows == 0..(MaxChronoWindow + 1)

\* get_metric_history: the points of the series with timestamp > cutoff_time,
\* as stored; nothing for a key that has no series
\* Utc::now() - window panics when the result is out of DateTime's range
GetMetricHistory(hist, vm_id, metric_type, duration) ==
    LET key == MetricKey(vm_id, metric_type)
        cutoff_age == FromStd(duration)
    IN  IF cutoff_age > MaxDateWindow
        THEN [status |-> "panic", points |-> <<>>]
        ELSE [status |-> "Ok",
              points |-> SelectSeq(IF key \in DOMAIN hist THEN hist[key] ELSE <<>>,
                                   LAMBDA age : age < cutoff_age)]

NoQuery == [vm_id |-> "", metric_type |-> "", duration |-> 0,
            ret |-> [status |-> "none", points |-> <<>>], history0 |-> EmptyMap]

\* interval.tick().await returns: one more collection interval has passed
MonTick ==
    /\ monPc = "tick"
    /\ monPc' = "collect"
    /\ metrics_history' =
         [k \in DOMAIN metrics_history |->
            [i \in 1..Len(metrics_history[k]) |-> metrics_history[k][i] + 1]]
    /\ queryReturn' = NoQuery
    /\ UNCHANGED <<hv, mgrVars, sideVars, monOutcome, monLogged>>

\* self.collect_metrics().await and the rest of the loop body
MonCollect ==
    /\ monPc = "collect"
    /\ \E fails \in CollectFails(hv) :
         LET c == CollectMetrics(hv, metrics_history, fails)
             l == AfterCollect(c.ret)
         IN  /\ metrics_history' = c.hist
             /\ monOutcome' = IF CollectionFailed(hv, fails) THEN "failed" ELSE "ok"
             /\ monLogged' = l.logged
             /\ monPc' = l.pc
    /\ UNCHANGED <<hv, mgrVars, sideVars, queryReturn>>

\* a caller reads the history of one series between two ticks
MonQuery ==
    /\ monPc = "tick"
    /\ queryReturn = NoQuery
    /\ \E vm_id \in {"host", UuidOf(1), "ghost"},
          metric_type \in {"cpu_usage", "memory_total"},
          duration \in Windows :
         queryReturn' =
            [vm_id |-> vm_id, metric_type |-> metric_type, duration |-> duration,
             ret |-> GetMetricHistory(metrics_history, vm_id, metric_type, duration),
             history0 |-> metrics_history]
    /\ UNCHANGED <<hv, mgrVars, sideVars, monPc, monOutcome, monLogged, metrics_history>>

\* an inactive domain is started by some other client of the hypervisor
GuestBoot(u) ==
    /\ u \in DOMAIN hv
    /\ ~IsActive(hv[u])
    /\ hv' = HvStart(hv, u)
    /\ UNCHANGED <<mgrVars, monVars, sideVars>>

----------------------------------------------------------------------------
(* SystemMonitor: the host snapshots kept in SYSTEM_CACHE *)

SysIdle ==
    /\ sysPc = "idle"
    /\ sysClock = 0
    /\ sysCurrent = -1
    /\ sysHistory = {}
    /\ sysEvicted = {}

\* SYSTEM_CACHE.len(): the history entries and the "current" entry
CacheLen(history, current) ==
    Cardinality(history) + (IF current = -1 THEN 0 ELSE 1)

\* the key sets iter().filter(starts_with("history_")).take(n) may yield: a
\* DashMap is iterated shard by shard in hash order, which is no order of
\* the keys
TakeHistory(history, n) ==
    {ks \in SUBSET history :
        Cardinality(ks) = (IF n < Cardinality(history) THEN n
                           ELSE Cardinality(history))}

\* start_monitoring spawns the collector loop
SysStart ==
    /\ sysPc = "idle"
    /\ sysPc' = "running"
    /\ UNCHANGED <<hv, mgrVars, monVars, call, xmlVars, memVars, listReturn, sysClock, sysCurrent,
                   sysHistory, sysEvicted>>

\* one turn of the loop. advance = 0 is a tick that follows a late one in
\* the same second. The Ref of get("current") is alive while insert locks
\* the shard of history_key: when both keys hash to one shard the insert
\* never returns.
SysTick ==
    /\ sysPc = "running"
    /\ sysClock < MaxSysClock
    /\ \E advance \in 0..1, same_shard \in BOOLEAN :
         LET now == sysClock + advance
             inserted == sysHistory \cup {now}
             len == CacheLen(inserted, now)
         IN  /\ sysClock' = now
             /\ sysCurrent' = now
             /\ IF same_shard
                THEN /\ sysPc' = "deadlocked"
                     /\ UNCHANGED <<sysHistory, sysEvicted>>
                ELSE /\ sysPc' = "running"
                     /\ IF len > MaxCacheLen
                        THEN \E oldest_keys \in TakeHistory(inserted, len - MaxCacheLen) :
                                /\ sysHistory' = inserted \ oldest_keys
                                /\ sysEvicted' = oldest_keys
                        ELSE /\ sysHistory' = inserted
                             /\ sysEvicted' = {}
    /\ UNCHANGED <<hv, mgrVars, monVars, call, xmlVars, memVars, listReturn>>

----------------------------------------------------------------------------
(* XmlParser: a descriptor is the sequence of the elements of <domain>, an   *)
(* element being its tag, its attributes as written, its text and its child *)
(* elements; the text searches of the parser are made on that document.     *)

El(tag, attrs, text, children) ==
    [tag |-> tag, attrs |-> attrs, text |-> text, children |-> children]

Attr(name, value) == [name |-> name, value |-> value]

None == [some |-> FALSE, value |-> ""]
Some(v) == [some |-> TRUE, value |-> v]

\* the elements of a document in the order their start tags are written
RECURSIVE Flatten(_)
Flatten(elems) ==
    IF elems = <<>> THEN <<>>
    ELSE <<Head(elems)>> \o Flatten(Head(elems).children) \o Flatten(Tail(elems))

\* extract_between_tags: the text after the first literal "<tag>", a start
\* tag written without attributes
ExtractBetweenTags(xml, tag) ==
    LET hits == SelectSeq(Flatten(xml), LAMBDA e : e.tag = tag /\ e.attrs = <<>>)
    IN  IF hits = <<>> THEN None ELSE Some(Head(hits).text)

\* the pattern "<element\s+[^>]*attribute=" also matches an attribute whose
\* name only ends in the one asked for (autoport for port)
EndsWith(name, attribute) == \E prefix \in {"", "auto"} : name = prefix \o attribute

HasAttr(e, attribute) ==
    \E i \in 1..Len(e.attrs) : EndsWith(e.attrs[i].name, attribute)

\* [^>]* is greedy: of the attributes of the start tag that match, the last
AttrValue(e, attribute) ==
    LET hits == {i \in 1..Len(e.attrs) : EndsWith(e.attrs[i].name, attribute)}
    IN  e.attrs[CHOOSE i \in hits : \A j \in hits : j <= i].value

\* extract_attribute_value: the value, in either kind of quotes, of the
\* attribute in the first start tag of that element that carries it
ExtractAttributeValue(xml, element, attribute) ==
    LET hits == SelectSeq(Flatten(xml),
                          LAMBDA e : e.tag = element /\ HasAttr(e, attribute))
    IN  IF hits = <<>> THEN None ELSE Some(AttrValue(Head(hits), attribute))

UnwrapOr(opt, default) == IF opt.some THEN opt.value ELSE default

\* the numbers whose decimal text parse::<u64>() and parse::<u32>() are given
Numbers == {0, 1, 2, 4, 128, 1023, 2048, 131072, 2097152}

\* str.parse::<u64>(): the number the text is the decimal form of
ParseNumber(text) ==
    IF \E n \in Numbers : ToString(n) = text
    THEN [ok |-> TRUE, value |-> CHOOSE n \in Numbers : ToString(n) = text]
    ELSE [ok |-> FALSE, value |-> 0]

\* the vendor tokens of parse_os_info the lowercased string contains
LowerTokens(str) ==
    CASE str = "Win10-box" -> {"win10"}
      [] str = "http://debian.org/debian/12" -> {"debian"}
      [] OTHER -> {}

\* every string written in the document
RECURSIVE Strings(_)
Strings(elems) ==
    IF elems = <<>> THEN {}
    ELSE LET e == Head(elems)
         IN  {e.tag, e.text}
             \cup {e.attrs[i].name : i \in 1..Len(e.attrs)}
             \cup {e.attrs[i].value : i \in 1..Len(e.attrs)}
             \cup Strings(e.children) \cup Strings(Tail(elems))

Contains(xml, tokens) ==
    \E str \in Strings(xml) : LowerTokens(str) \cap tokens # {}

\* parse_os_info: the libosinfo id first, then the scan of the document
ParseOsInfo(xml) ==
    LET os_id == ExtractAttributeValue(xml, "libosinfo:os", "id")
        from_id ==
            IF ~os_id.some THEN <<>>
            ELSE IF "debian" \in LowerTokens(os_id.value) THEN <<"linux", "debian">>
            ELSE IF "ubuntu" \in LowerTokens(os_id.value) THEN <<"linux", "ubuntu">>
            ELSE IF "fedora" \in LowerTokens(os_id.value) THEN <<"linux", "fedora">>
            ELSE IF LowerTokens(os_id.value) \cap {"rhel", "centos"} # {}
                 THEN <<"linux", "rhel">>
            ELSE IF "windows" \in LowerTokens(os_id.value) THEN <<"windows", "win10">>
            ELSE <<>>
    IN  IF from_id # <<>> THEN from_id
        ELSE IF Contains(xml, {"windows", "win10", "win11"}) THEN <<"windows", "win10">>
        ELSE IF Contains(xml, {"freebsd", "openbsd"}) THEN <<"bsd", "generic">>
        ELSE <<"linux", "generic">>

\* a parser that keeps every disk element, whatever its device
ParseSingleDiskAnyDevice(disk_xml) ==
    << [device |-> UnwrapOr(ExtractAttributeValue(disk_xml, "target", "dev"), "vda"),
        type_ |-> UnwrapOr(ExtractAttributeValue(disk_xml, "driver", "type"), "raw"),
        path |-> ExtractAttributeValue(disk_xml, "source", "file"),
        bus |-> UnwrapOr(ExtractAttributeValue(disk_xml, "target", "bus"), "virtio"),
        cache |-> ExtractAttributeValue(disk_xml, "driver", "cache")] >>

\* parse_single_disk on the text from a <disk ...> to its </disk>; size_gb,
\* read from the image with qemu-img, is left out
ParseSingleDisk(disk_xml) ==
    LET device_type == ExtractAttributeValue(disk_xml, "disk", "device")
        source_file == ExtractAttributeValue(disk_xml, "source", "file")
        source_dev == ExtractAttributeValue(disk_xml, "source", "dev")
    IN  IF ~device_type.some THEN <<>>
        ELSE IF device_type.value # "disk" THEN <<>>
        ELSE << [device |-> UnwrapOr(ExtractAttributeValue(disk_xml, "target", "dev"), "vda"),
                 type_ |-> UnwrapOr(ExtractAttributeValue(disk_xml, "driver", "type"), "raw"),
                 path |-> IF source_file.some THEN source_file ELSE source_dev,
                 bus |-> UnwrapOr(ExtractAttributeValue(disk_xml, "target", "bus"), "virtio"),
                 cache |-> ExtractAttributeValue(disk_xml, "driver", "cache")] >>

RECURSIVE ParseDisksFrom(_)
ParseDisksFrom(elems) ==
    IF elems = <<>> THEN <<>>
    ELSE ParseSingleDisk(<<Head(elems)>>) \o ParseDisksFrom(Tail(elems))

\* parse_storage_devices: every match of <disk\s+[^>]*>, a disk start tag
\* with an attribute, in the order of the document
ParseStorageDevices(xml) ==
    ParseDisksFrom(SelectSeq(Flatten(xml),
                             LAMBDA e : e.tag = "disk" /\ e.attrs # <<>>))

\* a parser that gives up an interface written without a model
ParseSingleInterfaceStrict(interface_xml) ==
    IF ExtractAttributeValue(interface_xml, "interface", "type").some
       /\ ExtractAttributeValue(interface_xml, "model", "type").some
    THEN << [type_ |-> ExtractAttributeValue(interface_xml, "interface", "type").value,
             mac_address |-> ExtractAttributeValue(interface_xml, "mac", "address"),
             source |-> "default",
             model |-> ExtractAttributeValue(interface_xml, "model", "type").value,
             connected |-> TRUE] >>
    ELSE <<>>

\* parse_single_interface on the text from an <interface ...> to its
\* </interface>
ParseSingleInterface(interface_xml) ==
    LET interface_type == ExtractAttributeValue(interface_xml, "interface", "type")
        network_source == ExtractAttributeValue(interface_xml, "source", "network")
        bridge_source == ExtractAttributeValue(interface_xml, "source", "bridge")
    IN  IF ~interface_type.some THEN <<>>
        ELSE << [type_ |-> interface_type.value,
                 mac_address |-> ExtractAttributeValue(interface_xml, "mac", "address"),
                 source |-> IF network_source.some THEN network_source.value
                            ELSE UnwrapOr(bridge_source, "default"),
                 model |-> UnwrapOr(ExtractAttributeValue(interface_xml, "model", "type"),
                                    "rtl8139"),
                 connected |-> TRUE] >>

RECURSIVE ParseInterfacesFrom(_)
ParseInterfacesFrom(elems) ==
    IF elems = <<>> THEN <<>>
    ELSE ParseSingleInterface(<<Head(elems)>>) \o ParseInterfacesFrom(Tail(elems))

ParseNetworkInterfaces(xml) ==
    ParseInterfacesFrom(SelectSeq(Flatten(xml),
                                  LAMBDA e : e.tag = "interface" /\ e.attrs # <<>>))

\* parse_vm_from_xml; the uuid drawn for a document without one is
\* "generated"; the graphics ports and the description are left out
\* the ports a <graphics> element is written with
Ports == {5900, 5901}

\* port_str.parse::<u16>().ok()
ParsePort(text) ==
    IF \E n \in Ports : ToString(n) = text
    THEN Some(CHOOSE n \in Ports : ToString(n) = text)
    ELSE None

\* xml.contains("type='<kind>'"): some attribute written type='<kind>',
\* whatever element carries it (the documents quote with ')
ContainsType(xml, kind) ==
    \E i \in 1..Len(Flatten(xml)) :
       \E k \in 1..Len(Flatten(xml)[i].attrs) :
          /\ EndsWith(Flatten(xml)[i].attrs[k].name, "type")
          /\ Flatten(xml)[i].attrs[k].value = kind

\* what parse_vnc_port and parse_spice_port do with the port attribute
GraphicsPort(xml) ==
    LET port_str == ExtractAttributeValue(xml, "graphics", "port")
    IN  IF ~port_str.some THEN None
        ELSE IF port_str.value = "-1" THEN None
        ELSE ParsePort(port_str.value)

\* parse_vnc_port
ParseVncPort(xml) == IF ContainsType(xml, "vnc") THEN GraphicsPort(xml) ELSE None

\* parse_spice_port
ParseSpicePort(xml) == IF ContainsType(xml, "spice") THEN GraphicsPort(xml) ELSE None

ParseVmFromXml(xml) ==
    LET memory_str == ExtractBetweenTags(xml, "memory")
        vcpus_str == ExtractBetweenTags(xml, "vcpu")
        os == ParseOsInfo(xml)
    IN  [status |-> "Ok",
         name |-> UnwrapOr(ExtractBetweenTags(xml, "name"), "unknown"),
         uuid |-> UnwrapOr(ExtractBetweenTags(xml, "uuid"), "generated"),
         memory_mb |-> IF memory_str.some /\ ParseNumber(memory_str.value).ok
                       THEN ParseNumber(memory_str.value).value \div 1024
                       ELSE 0,
         vcpus |-> IF vcpus_str.some /\ ParseNumber(vcpus_str.value).ok
                   THEN ParseNumber(vcpus_str.value).value
                   ELSE 0,
         os_type |-> os[1],
         os_variant |-> os[2],
         storage_devices |-> ParseStorageDevices(xml),
         network_interfaces |-> ParseNetworkInterfaces(xml),
         vnc_port |-> ParseVncPort(xml),
         spice_port |-> ParseSpicePort(xml)]

\* the <disk> the templates write
DiskElement(type, device, driver_type, cache, source_attr, source, dev, bus) ==
    El("disk", <<Attr("type", type), Attr("device", device)>>, "",
       << El("driver", <<Attr("name", "qemu"), Attr("type", driver_type),
                         Attr("cache", cache)>>, "", <<>>),
          El("source", <<Attr(source_attr, source)>>, "", <<>>),
          El("target", <<Attr("dev", dev), Attr("bus", bus)>>, "", <<>>) >>)

InterfaceElement(network, model) ==
    El("interface", <<Attr("type", "network")>>, "",
       << El("source", <<Attr("network", network)>>, "", <<>>),
          El("model", <<Attr("type", model)>>, "", <<>>) >>)

OsElement ==
    El("os", <<>>, "",
       << El("type", <<Attr("arch", "x86_64")>>, "hvm", <<>>),
          El("boot", <<Attr("dev", "hd")>>, "", <<>>) >>)

\* the head of the three templates: name, uuid, memory, currentMemory, vcpu
Heading(name, uuid, unit, memory, vcpus) ==
    << El("name", <<>>, name, <<>>),
       El("uuid", <<>>, uuid, <<>>),
       El("memory", <<Attr("unit", unit)>>, ToString(memory), <<>>),
       El("currentMemory", <<Attr("unit", unit)>>, ToString(memory), <<>>),
       El("vcpu", <<Attr("placement", "static")>>, ToString(vcpus), <<>>) >>

\* generate_vm_xml as the text it formats; storage_config, network_config
\* and display_config are at qcow2/none/virtio, default/virtio and vnc
GenerateVmXmlText(config, vm_id) ==
    Heading(config.name, vm_id, "MiB", config.memory, config.vcpus)
    \o << OsElement,
          El("devices", <<>>, "",
             << DiskElement("file", "disk", "qcow2", "none", "file",
                            "/var/lib/libvirt/images/" \o config.name \o ".qcow2",
                            "vda", "virtio"),
                InterfaceElement("default", "virtio"),
                El("graphics", <<Attr("type", "vnc"), Attr("port", "-1"),
                                 Attr("autoport", "yes")>>, "", <<>>) >>) >>

\* the descriptor create_proxmox_vm formats
ProxmoxVmXmlText(name, vm_id, memory_gb, vcpus, proxmox_path) ==
    Heading(name, vm_id, "MiB", memory_gb * 1024, vcpus)
    \o << OsElement,
          El("devices", <<>>, "",
             << DiskElement("file", "disk", "qcow2", "none", "file", proxmox_path,
                            "vda", "virtio"),
                InterfaceElement("default", "virtio"),
                El("graphics", <<Attr("type", "vnc"), Attr("port", "-1"),
                                 Attr("autoport", "yes")>>, "", <<>>) >>) >>

\* generate_qcow2_vm_xml as the text it formats
GenerateQcow2VmXmlText(vm_name, vm_uuid, qcow2_path, memory_mb, vcpus, passthrough_device) ==
    LET memory_kb == memory_mb * 1024
        passthrough_disk ==
            IF passthrough_device.some
            THEN << DiskElement("block", "disk", "raw", "none", "dev",
                                passthrough_device.value, "vdb", "virtio") >>
            ELSE <<>>
    IN  << El("name", <<>>, vm_name, <<>>),
           El("uuid", <<>>, vm_uuid, <<>>),
           El("metadata", <<>>, "",
              << El("libosinfo:libosinfo", <<Attr("xmlns:libosinfo", "libosinfo.org")>>, "",
                    << El("libosinfo:os", <<Attr("id", "http://debian.org/debian/12")>>,
                          "", <<>>) >>) >>),
           El("memory", <<Attr("unit", "KiB")>>, ToString(memory_kb), <<>>),
           El("currentMemory", <<Attr("unit", "KiB")>>, ToString(memory_kb), <<>>),
           El("vcpu", <<Attr("placement", "static")>>, ToString(vcpus), <<>>),
           OsElement,
           El("devices", <<>>, "",
              << DiskElement("file", "disk", "qcow2", "writeback", "file", qcow2_path,
                             "vda", "virtio") >>
              \o passthrough_disk
              \o << InterfaceElement("default", "virtio"),
                    El("graphics", <<Attr("type", "spice"), Attr("autoport", "yes")>>,
                       "", <<>>) >>) >>

\* the descriptors handed to the parser that no template of the program wrote
NameElements == {<<>>, <<El("name", <<>>, "vmA", <<>>)>>,
                 <<El("name", <<>>, "Win10-box", <<>>)>>}

MemoryElements ==
    {<<>>}
    \cup {<<El("memory", attrs, ToString(k), <<>>)>> :
             attrs \in {<<>>, <<Attr("unit", "KiB")>>}, k \in {1023, 2097152}}
    \cup {<<El("memory", <<>>, "plenty", <<>>)>>}

VcpuElements ==
    {<<>>, <<El("vcpu", <<>>, "2", <<>>)>>,
     <<El("vcpu", <<Attr("placement", "static")>>, "4", <<>>)>>}

DiskElements ==
    { DiskElement("file", "disk", "qcow2", "none", "file", "/images/a.qcow2",
                  "vda", "virtio"),
      El("disk", <<Attr("type", "file"), Attr("device", "disk")>>, "",
         << El("source", <<Attr("file", "/images/b.img")>>, "", <<>>),
            El("target", <<Attr("dev", "vdb"), Attr("bus", "sata")>>, "", <<>>) >>),
      El("disk", <<Attr("type", "file"), Attr("device", "cdrom")>>, "",
         << El("driver", <<Attr("name", "qemu"), Attr("type", "raw")>>, "", <<>>),
            El("target", <<Attr("dev", "sda"), Attr("bus", "sata")>>, "", <<>>) >>),
      El("disk", <<Attr("type", "file"), Attr("device", "floppy")>>, "",
         << El("target", <<Attr("dev", "fda"), Attr("bus", "fdc")>>, "", <<>>) >>),
      El("disk", <<Attr("type", "block")>>, "",
         << El("source", <<Attr("dev", "/dev/sdb")>>, "", <<>>),
            El("target", <<Attr("dev", "vdc"), Attr("bus", "virtio")>>, "", <<>>) >>) }

RECURSIVE SeqsUpTo(_, _)
SeqsUpTo(set, n) ==
    IF n = 0 THEN {<<>>}
    ELSE SeqsUpTo(set, n - 1)
         \cup {Append(q, x) : q \in {r \in SeqsUpTo(set, n - 1) : Len(r) = n - 1},
                              x \in set}

InterfaceElements ==
    {<<>>, <<InterfaceElement("default", "virtio")>>,
     <<El("interface", <<Attr("type", "bridge")>>, "",
          << El("source", <<Attr("bridge", "br0")>>, "", <<>>) >>)>>}

Documents ==
    { name \o memory \o vcpu \o <<OsElement>>
      \o << El("devices", <<>>, "", disks \o interfaces) >> :
        name \in NameElements, memory \in MemoryElements, vcpu \in VcpuElements,
        disks \in SeqsUpTo(DiskElements, MaxDisks), interfaces \in InterfaceElements }

\* the <graphics> elements of the descriptors libvirt and its clients write
GraphicsElement(type, attrs) ==
    El("graphics", <<Attr("type", type)>> \o attrs, "", <<>>)

GraphicsElements ==
    { GraphicsElement(type, attrs) :
        type \in {"vnc", "spice"},
        attrs \in { <<>>,
                    <<Attr("port", "-1"), Attr("autoport", "yes")>>,
                    <<Attr("port", "5900")>>,
                    <<Attr("port", "5901")>>,
                    <<Attr("port", "5900"), Attr("autoport", "no")>> } }

MaxGraphics == 2

\* descriptors with any combination of graphics elements, in any order
GraphicsDocuments ==
    { << El("name", <<>>, "vmA", <<>>), El("uuid", <<>>, "uuid-1", <<>>),
         El("devices", <<>>, "", graphics) >> :
        graphics \in SeqsUpTo(GraphicsElements, MaxGraphics) }

NoSource == [profile |-> "", name |-> "", memory_mb |-> 0, vcpus |-> 0]
NoInfo == [status |-> "none"]

XmlIdle ==
    /\ xmlDoc = <<>>
    /\ xmlFrom = NoSource
    /\ xmlInfo = NoInfo

\* the validated configurations a descriptor is generated from
ValidConfigs == {c \in Configs : ValidateVmConfig(c) = ""}

Source(profile, name, memory_mb, vcpus) ==
    [profile |-> profile, name |-> name, memory_mb |-> memory_mb, vcpus |-> vcpus]

\* create_vm formats the descriptor of a validated configuration, once the
\* parser is done with the descriptor before
XmlGenerate ==
    /\ xmlInfo # NoInfo
    /\ \E config \in ValidConfigs, vm_id \in {UuidOf(1)} :
         /\ xmlDoc' = GenerateVmXmlText(config, vm_id)
         /\ xmlFrom' = Source("generate_vm_xml", config.name, config.memory, config.vcpus)
    /\ xmlInfo' = NoInfo
    /\ UNCHANGED <<hv, mgrVars, monVars, call, sysVars, memVars, listReturn>>

\* create_proxmox_vm formats its descriptor
XmlGenerateProxmox ==
    /\ xmlInfo # NoInfo
    /\ \E name \in Names, memory_gb \in 1..2, vcpus \in {1, 2} :
         /\ xmlDoc' = ProxmoxVmXmlText(name, UuidOf(1), memory_gb, vcpus,
                                       "/images/proxmox.qcow2")
         /\ xmlFrom' = Source("create_proxmox_vm", name, memory_gb * 1024, vcpus)
    /\ xmlInfo' = NoInfo
    /\ UNCHANGED <<hv, mgrVars, monVars, call, sysVars, memVars, listReturn>>

\* create_vm_from_qcow2 formats its descriptor
XmlGenerateQcow2 ==
    /\ xmlInfo # NoInfo
    /\ \E vm_name \in Names, memory_mb \in {128, 2048}, vcpus \in {1, 2},
          passthrough_device \in {None, Some("/dev/sdb")} :
         /\ xmlDoc' = GenerateQcow2VmXmlText(vm_name, UuidOf(1), "/images/a.qcow2",
                                             memory_mb, vcpus, passthrough_device)
         /\ xmlFrom' = Source("generate_qcow2_vm_xml", vm_name, memory_mb, vcpus)
    /\ xmlInfo' = NoInfo
    /\ UNCHANGED <<hv, mgrVars, monVars, call, sysVars, memVars, listReturn>>

\* parse_vm_from_xml is applied to the descriptor
XmlParse ==
    /\ xmlInfo = NoInfo
    /\ xmlInfo' = ParseVmFromXml(xmlDoc)
    /\ UNCHANGED <<hv, mgrVars, monVars, call, sysVars, memVars, listReturn, xmlDoc, xmlFrom>>

----------------------------------------------------------------------------
(* VmManager::get_memory_stats and the listing of domains in any state *)

\* a counter memory_stats does not report
Absent == -1

\* stat.val / 1024 of a reported counter, 0 or the default of one that is not
CounterMb(kib, default) == IF kib = Absent THEN default ELSE kib \div 1024

\* a - b on u64: a build with overflow checks panics on a negative
\* difference, one without wraps it
SubU64(a, b, overflow_checks) ==
    IF a >= b THEN [status |-> "Ok", value |-> a - b]
    ELSE IF overflow_checks THEN [status |-> "panic", value |-> 0]
    ELSE [status |-> "Ok", value |-> (a - b) % WordModulus]

\* get_memory_stats: (used, total) in MB
GetMemoryStats(c, overflow_checks) ==
    IF ~c.stats_ok
    THEN [status |-> "Ok", path |-> "basic",
          used |-> c.memory \div 1024, total |-> c.memory \div 1024]
    ELSE LET actual_memory == CounterMb(c.actual_balloon, c.memory \div 1024)
             available_memory == CounterMb(c.available, 0)
             unused_memory == CounterMb(c.unused, 0)
             used_memory ==
                 IF available_memory > 0
                 THEN SubU64(actual_memory, available_memory, overflow_checks)
                 ELSE IF unused_memory > 0
                 THEN SubU64(actual_memory, unused_memory, overflow_checks)
                 ELSE [status |-> "Ok", value |-> actual_memory]
         IN  [status |-> used_memory.status, path |-> "detailed",
              used |-> used_memory.value, total |-> actual_memory]

\* what the hypervisor may report, in KiB
CounterValues == {Absent, 0, 512, 1024, 4096}

MemoryCounters ==
    [memory : {1024, 2048}, stats_ok : BOOLEAN,
     actual_balloon : {Absent, 1024, 2048}, available : CounterValues,
     unused : CounterValues]

NoCounters == [memory |-> 0, stats_ok |-> FALSE, actual_balloon |-> Absent,
               available |-> Absent, unused |-> Absent]
NoMemory == [status |-> "none", path |-> "", used |-> 0, total |-> 0]

MemIdle ==
    /\ memCounters = NoCounters
    /\ memReturn = NoMemory

\* get_vm_stats reaches get_memory_stats
MemStats ==
    /\ memReturn = NoMemory
    /\ \E overflow_checks \in BOOLEAN :
         memReturn' = GetMemoryStats(memCounters, overflow_checks)
    /\ UNCHANGED <<hv, mgrVars, monVars, call, sysVars, xmlVars, memCounters, listReturn>>

\* the balloon driver of the guest reports anew
MemReport ==
    /\ memReturn # NoMemory
    /\ \E c \in MemoryCounters : memCounters' = c
    /\ memReturn' = NoMemory
    /\ UNCHANGED <<hv, mgrVars, monVars, call, sysVars, xmlVars, listReturn>>

\* the codes virDomainGetInfo may give: the eight of virDomainState and
\* codes a later libvirt adds
StateCodes == VIR_DOMAIN_NOSTATE..(VIR_DOMAIN_PMSUSPENDED + MaxUnknownStates)

NotListed == [called |-> FALSE, fails |-> {}, ret |-> Ok0]

\* a domain changes state at the hypervisor
DomainStateChange ==
    /\ \E u \in DOMAIN hv, code \in StateCodes :
         /\ code # hv[u].state
         /\ hv' = [hv EXCEPT ![u].state = code]
    /\ listReturn' = NotListed
    /\ UNCHANGED <<mgrVars, monVars, call, sysVars, xmlVars, memVars>>

\* list_vms
ListAll ==
    /\ \E fails \in ListFails(hv, "") :
         listReturn' = [called |-> TRUE, fails |-> fails,
                        ret |-> ListVms(hv, fails, "")]
    /\ UNCHANGED <<hv, mgrVars, monVars, call, sysVars, xmlVars, memVars>>

----------------------------------------------------------------------------
(* The VmManager methods on their own: one call at a time on the manager,   *)
(* each recorded whole, with every hypervisor call that failed during it    *)

NoCall ==
    [op |-> "", arg |-> "", config |-> NoConfig, fails |-> {},
     hv0 |-> EmptyMap, cache0 |-> EmptyMap,
     out |-> Outcome(EmptyMap, EmptyMap, {}, Ok0, <<>>)]

\* the method returns: its effects, and the record of the call
Called(op, arg, config, fails, o) ==
    /\ call = NoCall
    /\ hv' = o.hv
    /\ vm_cache' = o.cache
    /\ usedUuids' = o.used
    /\ call' = [op |-> op, arg |-> arg, config |-> config, fails |-> fails,
                hv0 |-> hv, cache0 |-> vm_cache, out |-> o]
    /\ UNCHANGED <<pc, cmd, lockQueue, handle, last, monVars, sysVars, xmlVars,
                   memVars, listReturn>>

CallCreateVm ==
    \E config \in Configs :
       IF ValidateVmConfig(config) # ""
       THEN Called("create_vm", "", config, {},
                   CreateVm(hv, vm_cache, usedUuids, config, "", {}))
       ELSE \E vm_id \in FreshUuids(usedUuids) :
            \E fails \in {{"define"}, {"create"}}
                         \cup ListFails(HvDefine(hv, GenerateVmXml(config, vm_id)), "") :
              Called("create_vm", "", config, fails,
                     CreateVm(hv, vm_cache, usedUuids, config, vm_id, fails))

\* what the callers of the two image profiles pass: a name, the memory
\* (GiB for create_proxmox_vm, MiB for create_vm_from_qcow2) and the vCPUs
ImageNames == {"", "vmA"}
ProxmoxMemoryGb == {0, 2}
Qcow2MemoryMb == {0, 64, 2048}
ImageVcpus == {0, 2}

CallCreateProxmoxVm ==
    \E name \in ImageNames, memory_gb \in ProxmoxMemoryGb, vcpus \in ImageVcpus,
       image_exists \in BOOLEAN, vm_id \in FreshUuids(usedUuids),
       fails \in {{}, {"define"}, {"list"}} :
       Called("create_proxmox_vm", name,
              [name |-> name, memory |-> memory_gb * 1024, vcpus |-> vcpus,
               disk_size |-> 0], fails,
              CreateProxmoxVm(hv, vm_cache, usedUuids, name, memory_gb, vcpus,
                              image_exists, vm_id, fails))

CallCreateVmFromQcow2 ==
    \E vm_name \in ImageNames, memory_mb \in Qcow2MemoryMb, vcpus \in ImageVcpus,
       file_exists \in BOOLEAN, vm_uuid \in FreshUuids(usedUuids),
       fails \in {{}, {"define"}, {"list"}} :
       Called("create_vm_from_qcow2", vm_name,
              [name |-> vm_name, memory |-> memory_mb, vcpus |-> vcpus,
               disk_size |-> 0], fails,
              CreateVmFromQcow2(hv, vm_cache, usedUuids, vm_name, memory_mb, vcpus,
                                file_exists, vm_uuid, fails))

CallStartVm ==
    \E vm_id \in IdArgs(hv), fails \in {{}, {"create"}} :
       Called("start_vm", vm_id, NoConfig, fails,
              StartVm(hv, vm_cache, usedUuids, vm_id, fails))

CallStopVm ==
    \E vm_id \in IdArgs(hv), fails \in {{"lookup"}} \cup StopFailures :
       Called("stop_vm", vm_id, NoConfig, fails,
              StopVm(hv, vm_cache, usedUuids, vm_id, fails))

CallDeleteVm ==
    \E vm_id \in IdArgs(hv), fails \in DeleteFailures :
       Called("delete_vm", vm_id, NoConfig, fails,
              DeleteVm(hv, vm_cache, usedUuids, vm_id, fails))

CallRefreshVmCache ==
    \E fails \in ListFails(hv, "") :
       LET rf == RefreshVmCache(hv, vm_cache, fails)
       IN  Called("refresh_vm_cache", "", NoConfig, fails,
                  Outcome(hv, rf.cache, usedUuids, rf.ret, <<>>))

CallGetVmStats ==
    \E vm_id \in IdArgs(hv),
       begin \in {[fails |-> {}, proc |-> -1], [fails |-> {"info1"}, proc |-> 1250]} :
       Called("get_vm_stats", vm_id, NoConfig, begin.fails,
              Outcome(hv, vm_cache, usedUuids,
                      GetVmStats(hv, vm_id, begin,
                                 [fails |-> {}, diff |-> 50, proc |-> -1]), <<>>))

\* the collector asks by uuid
CallGetRealTimeStats ==
    \E vm_id \in DOMAIN hv \cup {"ghost"},
       fails \in {{}, {"connection"}, {"get_info"}, {"get_xml_desc"}} :
       Called("get_real_time_stats", vm_id, NoConfig, fails,
              Outcome(hv, vm_cache, usedUuids,
                      GetRealTimeStats(hv, vm_id, fails), <<>>))

\* the caller has taken the value; the manager is ready for the next call
CallReturn ==
    /\ call # NoCall
    /\ call' = NoCall
    /\ UNCHANGED <<hv, mgrVars, monVars, sysVars, xmlVars, memVars, listReturn>>


Init ==
    /\ hv = EmptyMap
    /\ usedUuids = {}
    /\ vm_cache = EmptyMap
    /\ pc = [t \in Tasks |-> "idle"]
    /\ cmd = [t \in Tasks |-> ""]
    /\ lockQueue = <<>>
    /\ handle = [t \in Tasks |-> ""]
    /\ last = NoReturn
    /\ monPc = "tick"
    /\ monOutcome = "none"
    /\ monLogged = FALSE
    /\ metrics_history = EmptyMap
    /\ queryReturn = NoQuery
    /\ SysIdle
    /\ XmlIdle
    /\ MemIdle
    /\ listReturn = NotListed
    /\ call = NoCall

Next ==
    \/ \E t \in Tasks, op \in Ops : Invoke(t, op)
    \/ \E t \in Tasks : Acquire(t)
    \/ \E t \in Tasks : RunGetVms(t)
    \/ \E t \in Tasks : RunCreateVm(t)
    \/ \E t \in Tasks : RunStartVm(t)
    \/ \E t \in Tasks : RunStopVm(t)
    \/ \E t \in Tasks : RunDeleteVm(t)
    \/ \E t \in Tasks : RunImportVm(t)
    \/ \E t \in Tasks : RunRefreshVms(t)
    \/ \E t \in Tasks : RunStatsBegin(t)
    \/ \E t \in Tasks : RunStatsEnd(t)
    \/ \E u \in Uuids : GuestPowerOff(u)
    \/ Deliver

Spec == Init /\ [][Next]_vars

\* The collector on its own, over a hypervisor that already has two domains,
\* one of them running.  The interval fires and a collection returns.
\* vmA running and vmB shut off
InitMonHv ==
    HvStart(HvDefine(HvDefine(EmptyMap,
                  [name |-> "vmA", uuid |-> UuidOf(1), memory |-> 2048,
                   unit |-> "MiB", vcpus |-> 2, agent |-> FALSE]),
                  [name |-> "vmB", uuid |-> UuidOf(2), memory |-> 128,
                   unit |-> "MiB", vcpus |-> 1, agent |-> FALSE]), UuidOf(1))

InitMon ==
    /\ hv = InitMonHv
    /\ usedUuids = {UuidOf(1), UuidOf(2)}
    /\ vm_cache = EmptyMap
    /\ pc = [t \in Tasks |-> "idle"]
    /\ cmd = [t \in Tasks |-> ""]
    /\ lockQueue = <<>>
    /\ handle = [t \in Tasks |-> ""]
    /\ last = NoReturn
    /\ monPc = "tick"
    /\ monOutcome = "none"
    /\ monLogged = FALSE
    /\ metrics_history = EmptyMap
    /\ queryReturn = NoQuery
    /\ SysIdle
    /\ XmlIdle
    /\ MemIdle
    /\ listReturn = NotListed
    /\ call = NoCall

NextMon ==
    \/ MonTick
    \/ MonCollect
    \/ MonQuery
    \/ \E u \in Uuids : GuestPowerOff(u)
    \/ \E u \in Uuids : GuestBoot(u)

SpecMon ==
    /\ InitMon
    /\ [][NextMon]_vars
    /\ WF_vars(MonTick)
    /\ WF_vars(MonCollect)

NextSys ==
    \/ SysStart
    \/ SysTick

SpecSys == Init /\ [][NextSys]_vars

\* VmManager and MonitoringService as constructed
ManagerIdle ==
    /\ usedUuids = {}
    /\ vm_cache = EmptyMap
    /\ pc = [t \in Tasks |-> "idle"]
    /\ cmd = [t \in Tasks |-> ""]
    /\ lockQueue = <<>>
    /\ handle = [t \in Tasks |-> ""]
    /\ last = NoReturn
    /\ monPc = "tick"
    /\ monOutcome = "none"
    /\ monLogged = FALSE
    /\ metrics_history = EmptyMap
    /\ queryReturn = NoQuery

InitXml ==
    /\ hv = EmptyMap
    /\ ManagerIdle
    /\ SysIdle
    /\ xmlDoc \in Documents
    /\ xmlFrom = NoSource
    /\ xmlInfo = NoInfo
    /\ MemIdle
    /\ listReturn = NotListed
    /\ call = NoCall

NextXml ==
    \/ XmlGenerate
    \/ XmlGenerateProxmox
    \/ XmlGenerateQcow2
    \/ XmlParse

SpecXml == InitXml /\ [][NextXml]_vars

\* The parser on descriptors that differ in their graphics elements
InitGfx ==
    /\ hv = EmptyMap
    /\ ManagerIdle
    /\ SysIdle
    /\ xmlDoc \in GraphicsDocuments
    /\ xmlFrom = NoSource
    /\ xmlInfo = NoInfo
    /\ MemIdle
    /\ listReturn = NotListed
    /\ call = NoCall

SpecGfx == InitGfx /\ [][NextXml]_vars

InitMem ==
    /\ hv = EmptyMap
    /\ ManagerIdle
    /\ SysIdle
    /\ XmlIdle
    /\ memCounters \in MemoryCounters
    /\ memReturn = NoMemory
    /\ listReturn = NotListed
    /\ call = NoCall

NextMem ==
    \/ MemStats
    \/ MemReport

SpecMem == InitMem /\ [][NextMem]_vars

\* two domains defined, in whatever state the hypervisor has them
InitList ==
    /\ \E code1, code2 \in StateCodes :
          hv = [InitMonHv EXCEPT ![UuidOf(1)].state = code1,
                                 ![UuidOf(2)].state = code2]
    /\ ManagerIdle
    /\ SysIdle
    /\ XmlIdle
    /\ MemIdle
    /\ listReturn = NotListed
    /\ call = NoCall

NextList ==
    \/ DomainStateChange
    \/ ListAll

SpecList == InitList /\ [][NextList]_vars

\* The methods one at a time, from a manager that has just connected
NextCall ==
    \/ CallCreateVm
    \/ CallCreateProxmoxVm
    \/ CallCreateVmFromQcow2
    \/ CallStartVm
    \/ CallStopVm
    \/ CallDeleteVm
    \/ CallRefreshVmCache
    \/ CallGetVmStats
    \/ CallGetRealTimeStats
    \/ CallReturn
    \/ \E u \in Uuids : call = NoCall /\ GuestPowerOff(u)

SpecCall == Init /\ [][NextCall]_vars

----------------------------------------------------------------------------
(* Properties.  `last` is the return just made: the command, what it was    *)
(* called with, what it returned, the lookup and is_active calls the        *)
(* hypervisor failed (fails), and the state the command found (hv0,         *)
(* cache0); hv and vm_cache are the state it left.                          *)

\* the domain the vm_id of the command resolved to, NotFound if none
Resolved == GetDomainById(last.hv0, last.arg, {})

\* C1: once delete_vm(x) has returned Ok, x being the identifier or the name
\* of a domain, vm_cache holds no record of that domain and no list_vms
\* result contains it.
C1_DeletedIsForgotten ==
    (last.op = "delete_vm" /\ last.ret.status = "Ok") =>
        /\ \A k \in DOMAIN vm_cache : vm_cache[k].id # Resolved
        /\ \A fails \in ListFails(hv, "") :
             LET vms == ListVms(hv, fails, "").vms
             IN  \A i \in 1..Len(vms) : vms[i].id # Resolved

\* C2: start_vm on a domain that is already active sends no request to the
\* hypervisor and leaves the domains and vm_cache as they were; it returns Ok
\* whenever the hypervisor answers the lookup and the is_active query.
C2_StartActiveIsNoop ==
    (last.op = "start_vm" /\ Resolved # NotFound /\ IsActive(last.hv0[Resolved])) =>
        /\ last.reqs = <<>>
        /\ hv = last.hv0
        /\ vm_cache = last.cache0
        /\ last.fails = {} => last.ret.status = "Ok"

C2_Witness ==
    /\ last.op = "start_vm"
    /\ last.arg \in Names
    /\ Resolved # NotFound
    /\ IsActive(last.hv0[Resolved])
    /\ last.ret.status = "Ok"

\* C3: in every reachable state vm_cache holds at most one record per
\* VirtualMachine.id, and every record is stored under its own id.
C3_OneRecordPerId ==
    /\ \A k \in DOMAIN vm_cache : vm_cache[k].id = k
    /\ \A k1, k2 \in DOMAIN vm_cache :
         vm_cache[k1].id = vm_cache[k2].id => k1 = k2

C3_Witness ==
    /\ Cardinality(DOMAIN vm_cache) = 2
    /\ last.op \in {"create_vm", "import_vm_from_xml", "refresh_vms"}
    /\ last.ret.status = "Ok"

\* C4: no operation removes from vm_cache the record of a domain that is
\* still defined in the hypervisor: a record that a command removed belongs
\* to a domain that is no longer defined.
C4_RemovedOnlyWhenUndefined ==
    \A k \in DOMAIN last.cache0 \ DOMAIN vm_cache :
        ~(k \in DOMAIN hv /\ hv[k].persistent)

\* C5: get_vm_stats on a domain that is not active when it looks never
\* returns a VmStats; it fails, and with "VM is not running" whenever the
\* hypervisor answers the lookup and the is_active query.
C5_StatsOnlyOfActive ==
    (/\ last.op = "get_vm_stats"
     /\ ~last.resumed
     /\ Resolved # NotFound
     /\ ~IsActive(last.hv0[Resolved])) =>
        /\ last.ret.status = "Err"
        /\ ~last.ret.stats.valid
        /\ last.fails = {} =>
             /\ last.ret.err = "VmOperationFailed"
             /\ last.ret.msg = "VM is not running"

C5_Witness ==
    /\ last.op = "get_vm_stats"
    /\ Resolved # NotFound
    /\ ~IsActive(last.hv0[Resolved])
    /\ last.ret.msg = "VM is not running"

\* C6: when create_vm returns Ok(id), id is not empty and a list_vms made
\* next, the hypervisor answering its calls, contains the VM with that id,
\* the configured name, memory in MB and number of vCPUs.
C6_CreatedIsListed ==
    (last.op = "create_vm" /\ last.ret.status = "Ok") =>
        /\ last.ret.id # ""
        /\ LET vms == ListVms(hv, {}, "").vms
           IN  \E i \in 1..Len(vms) :
                 /\ vms[i].id = last.ret.id
                 /\ vms[i].name = last.config.name
                 /\ vms[i].memory = last.config.memory
                 /\ vms[i].vcpus = last.config.vcpus

C6_Witness ==
    /\ last.op = "create_vm"
    /\ last.ret.status = "Ok"
    /\ last.config.memory = 2048
    /\ DOMAIN last.hv0 # {}

\* C7: create_vm with an empty name, less than 128 MB of memory, no vCPU or
\* a disk below 1 GB returns InvalidVmConfig, sends nothing to the hypervisor
\* and leaves the domains and vm_cache as they were.
C7_InvalidConfigNoEffect ==
    (/\ last.op = "create_vm"
     /\ \/ last.config.name = ""
        \/ last.config.memory < 128
        \/ last.config.vcpus = 0
        \/ last.config.disk_size < 1) =>
        /\ last.ret.status = "Err"
        /\ last.ret.err = "InvalidVmConfig"
        /\ last.reqs = <<>>
        /\ hv = last.hv0
        /\ vm_cache = last.cache0

C7_Witness ==
    /\ last.op = "create_vm"
    /\ last.config.memory = 127
    /\ last.ret.err = "InvalidVmConfig"
    /\ last.hv0 # EmptyMap

\* C8: no two of create, start, stop and delete hold the VmManager at the
\* same time, and none of them holds it together with a cache refresh.
C8_MutationsExclusive ==
    \A a, b \in Holders :
        a # b =>
          ~(/\ cmd[a] \in {"create_vm", "start_vm", "stop_vm", "delete_vm"}
            /\ cmd[b] \in {"create_vm", "start_vm", "stop_vm", "delete_vm",
                           "refresh_vms"})

\* C9: while a stats request is in its sampling wait, no other command is
\* kept waiting for the VmManager lock.
C9_SamplingBlocksNobody ==
    \A t, w \in Tasks : ~(pc[t] = "sampling" /\ pc[w] = "wait")

\* C10: a collector tick whose collection failed neither stops the loop nor
\* reaches the caller as an error, and after it the next tick comes and
\* collection is attempted again.
C10_FailedTickIsRetried ==
    /\ [](monPc \in {"tick", "collect"} /\ ~monLogged)
    /\ (monOutcome = "failed" /\ monPc = "tick") ~> (monPc = "collect")

C10_Witness ==
    /\ monOutcome = "failed"
    /\ monPc = "collect"
    /\ MetricKey("host", "cpu_usage") \in DOMAIN metrics_history

\* C11: get_metric_history(entity, metric, window) returns exactly the
\* stored points of that series that are newer than now minus window, in the
\* order they were stored, nothing for an unknown series, and leaves
\* metrics_history as it was.
C11_HistoryIsTheWindow ==
    queryReturn # NoQuery =>
        LET key == MetricKey(queryReturn.vm_id, queryReturn.metric_type)
            stored == IF key \in DOMAIN queryReturn.history0
                      THEN queryReturn.history0[key] ELSE <<>>
        IN  /\ queryReturn.ret.status = "Ok"
            /\ queryReturn.ret.points =
                 SelectSeq(stored, LAMBDA age : age < queryReturn.duration)
            /\ \A i, j \in 1..Len(queryReturn.ret.points) :
                 i < j => queryReturn.ret.points[i] >= queryReturn.ret.points[j]
            /\ metrics_history = queryReturn.history0

\* C12: after every completed collector tick no stored point is older than
\* the retention window and no key maps to an empty series; the purge leaves
\* of every series the points young enough, in the order they had.
C12_PurgedAfterTick ==
    /\ (monPc = "tick" /\ monOutcome # "none") =>
          \A k \in DOMAIN metrics_history :
             /\ metrics_history[k] # <<>>
             /\ \A i \in 1..Len(metrics_history[k]) :
                  metrics_history[k][i] < RetentionTicks
    /\ LET purged == CleanupOldMetrics(metrics_history)
       IN  \A k \in DOMAIN purged :
             /\ k \in DOMAIN metrics_history
             /\ \E drop \in 0..Len(metrics_history[k]) :
                  /\ purged[k] = SubSeq(metrics_history[k], drop + 1,
                                        Len(metrics_history[k]))
                  /\ \A i \in 1..drop : metrics_history[k][i] >= RetentionTicks

C12_Witness ==
    /\ monPc = "tick"
    /\ monOutcome # "none"
    /\ MetricKey(UuidOf(1), "cpu_usage") \notin DOMAIN metrics_history
    /\ Len(metrics_history[MetricKey("host", "cpu_usage")]) = RetentionTicks

\* C13: after every collector tick at most 100 historical host snapshots
\* are retained in SYSTEM_CACHE, and the snapshots a tick evicts are the
\* oldest: every retained one is at least as new as every evicted one.
C13_OldestEvicted ==
    (sysPc = "running" /\ sysCurrent # -1) =>
        /\ Cardinality(sysHistory) <= MaxCacheLen
        /\ \A e \in sysEvicted, r \in sysHistory : e <= r

\* the child elements of <devices> with that tag, as the document lists them
DeviceElements(xml, tag) ==
    LET devices == SelectSeq(xml, LAMBDA e : e.tag = "devices")
    IN  IF devices = <<>> THEN <<>>
        ELSE SelectSeq(Head(devices).children, LAMBDA e : e.tag = tag)

\* the disk elements of the document whose device attribute is "disk"
HardDisks(xml) ==
    SelectSeq(DeviceElements(xml, "disk"),
              LAMBDA e : \E i \in 1..Len(e.attrs) :
                            e.attrs[i] = Attr("device", "disk"))

\* whether element e has a child of that tag carrying that attribute
ChildHasAttr(e, tag, attribute) ==
    \E i \in 1..Len(e.children) :
       /\ e.children[i].tag = tag
       /\ \E j \in 1..Len(e.children[i].attrs) :
             e.children[i].attrs[j].name = attribute

\* C14: for every descriptor whose memory element carries a unit attribute
\* and a value of k KiB, parse_vm_from_xml yields memory_mb = k \div 1024.
C14_MemoryKiBToMb ==
    xmlInfo # NoInfo =>
        \A i \in 1..Len(xmlDoc), k \in Numbers :
           (/\ xmlDoc[i].tag = "memory"
            /\ xmlDoc[i].attrs = <<Attr("unit", "KiB")>>
            /\ xmlDoc[i].text = ToString(k))
           => xmlInfo.memory_mb = k \div 1024

\* C15: parsing the descriptor any of the three generation profiles writes
\* for a valid configuration recovers the configured name, the memory in MB
\* and the vCPU count.
C15_GenerateThenParse ==
    (xmlInfo # NoInfo /\ xmlFrom # NoSource) =>
        /\ xmlInfo.name = xmlFrom.name
        /\ xmlInfo.memory_mb = xmlFrom.memory_mb
        /\ xmlInfo.vcpus = xmlFrom.vcpus

\* C16: parse_vm_from_xml returns Ok for a descriptor that lacks optional
\* fields and fills the defaults: linux/generic when nothing names the
\* system, format "raw" for a disk without a driver type, model rtl8139 for
\* an interface without a model.
C16_DefaultsForMissing ==
    xmlInfo # NoInfo =>
        /\ xmlInfo.status = "Ok"
        /\ (\A str \in Strings(xmlDoc) : LowerTokens(str) = {})
              => (xmlInfo.os_type = "linux" /\ xmlInfo.os_variant = "generic")
        /\ Len(xmlInfo.storage_devices) = Len(HardDisks(xmlDoc))
        /\ \A i \in 1..Len(HardDisks(xmlDoc)) :
              ~ChildHasAttr(HardDisks(xmlDoc)[i], "driver", "type")
                 => xmlInfo.storage_devices[i].type_ = "raw"
        /\ Len(xmlInfo.network_interfaces) = Len(DeviceElements(xmlDoc, "interface"))
        /\ \A i \in 1..Len(DeviceElements(xmlDoc, "interface")) :
              ~ChildHasAttr(DeviceElements(xmlDoc, "interface")[i], "model", "type")
                 => xmlInfo.network_interfaces[i].model = "rtl8139"

C16_Witness ==
    /\ xmlInfo # NoInfo
    /\ xmlFrom = NoSource
    /\ Len(xmlDoc) = 2
    /\ xmlInfo.os_type = "linux"
    /\ \E i \in 1..Len(xmlInfo.storage_devices) :
          /\ xmlInfo.storage_devices[i].type_ = "raw"
          /\ ~ChildHasAttr(HardDisks(xmlDoc)[i], "driver", "type")
    /\ \E i \in 1..Len(xmlInfo.network_interfaces) :
          xmlInfo.network_interfaces[i].model = "rtl8139"

\* C17: the storage devices parse_vm_from_xml returns are, one for one and
\* in the order of the document, the disk elements whose device attribute
\* is "disk"; a cdrom or floppy element gives no entry.
C17_OnlyHardDisks ==
    xmlInfo # NoInfo =>
        /\ Len(xmlInfo.storage_devices) = Len(HardDisks(xmlDoc))
        /\ \A i \in 1..Len(HardDisks(xmlDoc)) :
              \E j \in 1..Len(HardDisks(xmlDoc)[i].children) :
                 /\ HardDisks(xmlDoc)[i].children[j].tag = "target"
                 /\ Attr("dev", xmlInfo.storage_devices[i].device)
                       = HardDisks(xmlDoc)[i].children[j].attrs[1]

C17_Witness ==
    /\ xmlInfo # NoInfo
    /\ Len(DeviceElements(xmlDoc, "disk")) = 2
    /\ \E i \in 1..Len(DeviceElements(xmlDoc, "disk")[1].attrs) :
          DeviceElements(xmlDoc, "disk")[1].attrs[i] = Attr("device", "cdrom")
    /\ Len(xmlInfo.storage_devices) = 1
    /\ xmlInfo.storage_devices[1].device = "vdb"

\* C18: the cpu_usage of a VmStats lies within [0, 100] on every derivation
\* path, the figure of the host's process table included, and is 0 when the
\* domain is not running.
C18_CpuUsageIsPercentage ==
    (last.op = "get_vm_stats" /\ last.ret.stats.valid) =>
        /\ last.ret.stats.cpu_usage \in 0..10000
        /\ (Resolved # NotFound /\ ~IsActive(last.hv0[Resolved]))
              => last.ret.stats.cpu_usage = 0

\* C19: on the detailed path of get_memory_stats, whatever counters the
\* hypervisor reports, the used memory returned never exceeds the total
\* returned.
C19_UsedWithinTotal ==
    (memReturn # NoMemory /\ memReturn.path = "detailed") =>
        /\ memReturn.status = "Ok"
        /\ memReturn.used <= memReturn.total

\* C20: list_vms gives every domain the VmState of its state code: Stopped
\* for NOSTATE and SHUTOFF, Running for RUNNING and BLOCKED, Paused,
\* ShuttingDown, Suspended, Error for CRASHED and for every code outside
\* virDomainState; no domain the hypervisor answers for is left out.
C20_EveryStateMapped ==
    (listReturn.called /\ listReturn.ret.status = "Ok") =>
        \A u \in DOMAIN hv :
           ConvFail("", u) \notin listReturn.fails =>
           LET code == hv[u].state
               expected ==
                   IF code \in {VIR_DOMAIN_NOSTATE, VIR_DOMAIN_SHUTOFF} THEN "Stopped"
                   ELSE IF code \in {VIR_DOMAIN_RUNNING, VIR_DOMAIN_BLOCKED} THEN "Running"
                   ELSE IF code = VIR_DOMAIN_PAUSED THEN "Paused"
                   ELSE IF code = VIR_DOMAIN_SHUTDOWN THEN "ShuttingDown"
                   ELSE IF code = VIR_DOMAIN_PMSUSPENDED THEN "Suspended"
                   ELSE "Error"
           IN  \E i \in 1..Len(listReturn.ret.vms) :
                  /\ listReturn.ret.vms[i].id = u
                  /\ listReturn.ret.vms[i].state = expected

C20_Witness ==
    /\ listReturn.called
    /\ listReturn.fails = {}
    /\ hv[UuidOf(1)].state > VIR_DOMAIN_PMSUSPENDED
    /\ hv[UuidOf(2)].state = VIR_DOMAIN_NOSTATE
    /\ Len(listReturn.ret.vms) = 2
    /\ listReturn.ret.vms[1].state = "Error"
    /\ listReturn.ret.vms[2].state = "Stopped"

\* C21: list_vms fails only when list_all_domains fails; otherwise it returns
\* Ok with the domains whose conversion succeeded, each once, in the order of
\* the enumeration, and without those whose conversion failed.
C21_ListSkipsUnconvertible ==
    listReturn.called =>
        /\ (listReturn.ret.status = "Err") <=> ("list" \in listReturn.fails)
        /\ listReturn.ret.status = "Ok" =>
             LET vms == listReturn.ret.vms
             IN  /\ {vms[i].id : i \in 1..Len(vms)}
                      = {u \in DOMAIN hv : ConvFail("", u) \notin listReturn.fails}
                 /\ \A i, j \in 1..Len(vms) :
                      i < j => \E a, b \in 1..MaxUuid :
                                  /\ a < b
                                  /\ vms[i].id = UuidOf(a)
                                  /\ vms[j].id = UuidOf(b)

C21_Witness ==
    /\ listReturn.called
    /\ listReturn.fails = {ConvFail("", UuidOf(1))}
    /\ listReturn.ret.status = "Ok"
    /\ Len(listReturn.ret.vms) = 1
    /\ listReturn.ret.vms[1].id = UuidOf(2)

\* the domain a recorded call's vm_id names in the hypervisor it found
\* (NotFound when the lookup failed or nothing carries that id or name)
CallDomain ==
    IF "lookup" \in call.fails THEN NotFound
    ELSE IF call.arg \in DOMAIN call.hv0 THEN call.arg
    ELSE IF \E u \in DOMAIN call.hv0 : call.hv0[u].name = call.arg
         THEN CHOOSE u \in DOMAIN call.hv0 : call.hv0[u].name = call.arg
    ELSE NotFound

\* the requests a recorded call sent, as a set
CallRequests == {call.out.reqs[i] : i \in 1..Len(call.out.reqs)}

\* C22: stop_vm on a domain it found sends the graceful shutdown request
\* first; it sends the forced stop (destroy) exactly when the shutdown
\* request returned an error, and after it; it returns an error exactly when
\* the domain was not found or both requests failed.
C22_GracefulThenForced ==
    call.op = "stop_vm" =>
        LET reqs == call.out.reqs
            found == CallDomain # NotFound
            graceful_failed ==
                "shutdown" \in call.fails \/ ~IsActive(call.hv0[CallDomain])
            forced_failed ==
                "destroy" \in call.fails \/ ~IsActive(call.hv0[CallDomain])
        IN  /\ ~found => reqs = <<>> /\ call.out.ret.err = "VmNotFound"
            /\ found =>
                 /\ Len(reqs) \in {1, 2}
                 /\ reqs[1] = "shutdown"
                 /\ Len(reqs) = 2 => reqs[2] = "destroy"
                 /\ (Len(reqs) = 2) <=> graceful_failed
                 /\ (call.out.ret.status = "Err")
                        <=> (graceful_failed /\ forced_failed)

\* a running domain whose shutdown request failed and whose destroy worked
C22_Witness ==
    /\ call.op = "stop_vm"
    /\ call.fails = {"shutdown"}
    /\ CallDomain # NotFound
    /\ IsActive(call.hv0[CallDomain])
    /\ call.out.reqs = <<"shutdown", "destroy">>
    /\ call.out.ret.status = "Ok"
    /\ ~IsActive(call.out.hv[CallDomain])

\* C23: delete_vm stops the domain only if it is active, then undefines it,
\* then removes the cache entry: the undefine request is the last one sent
\* and follows the stop requests; a failing stop or undefine is returned,
\* nothing is sent after it and vm_cache is left as it was; on success the
\* entry under vm_id is gone from vm_cache and nothing else changed in it.
C23_StopUndefineEvict ==
    (call.op = "delete_vm" /\ CallDomain # NotFound /\ "is_active" \notin call.fails) =>
        LET reqs == call.out.reqs
            ret == call.out.ret
            active0 == IsActive(call.hv0[CallDomain])
            stop_failed == /\ active0
                           /\ "shutdown" \in call.fails
                           /\ "destroy" \in call.fails
            stop_reqs == IF ~active0 THEN <<>>
                         ELSE IF "shutdown" \in call.fails
                              THEN <<"shutdown", "destroy">>
                              ELSE <<"shutdown">>
        IN  /\ stop_failed =>
                 /\ reqs = stop_reqs
                 /\ ret.status = "Err"
                 /\ ret.msg = "Failed to stop VM"
            /\ ~stop_failed => reqs = stop_reqs \o <<"undefine">>
            /\ (~stop_failed /\ "undefine" \in call.fails) =>
                 /\ ret.status = "Err"
                 /\ ret.msg = "Failed to delete VM"
            /\ ret.status = "Err" => call.out.cache = call.cache0
            /\ ret.status = "Ok" => call.out.cache = RemoveKey(call.cache0, call.arg)

\* a running domain with a cache entry is stopped, undefined and evicted
C23_Witness ==
    /\ call.op = "delete_vm"
    /\ call.arg \in DOMAIN call.cache0
    /\ call.out.reqs = <<"shutdown", "undefine">>
    /\ call.out.ret.status = "Ok"
    /\ call.arg \notin DOMAIN call.out.cache

\* an undefine that fails after a stop that worked leaves the entry cached
C23_WitnessUndefineFails ==
    /\ call.op = "delete_vm"
    /\ call.arg \in DOMAIN call.cache0
    /\ "undefine" \in call.fails
    /\ call.out.reqs = <<"shutdown", "undefine">>
    /\ call.out.ret.status = "Err"
    /\ call.arg \in DOMAIN call.out.cache

\* C24: when delete_vm sends the undefine request for a domain that was
\* active when delete_vm began, the domain has stopped by then: it is not
\* active in the hypervisor the call leaves behind.
C24_UndefineOnlyStopped ==
    ( /\ call.op = "delete_vm"
      /\ CallDomain # NotFound
      /\ IsActive(call.hv0[CallDomain])
      /\ "undefine" \in CallRequests )
    => \/ CallDomain \notin DOMAIN call.out.hv
       \/ ~IsActive(call.out.hv[CallDomain])

\* C25: in each of the three creation profiles (create_vm,
\* create_proxmox_vm, create_vm_from_qcow2) a configuration with an empty
\* name, zero vCPUs or less memory than the floor is rejected and no domain
\* is defined: the call returns an error and leaves the hypervisor as it was.
C25_EveryProfileValidates ==
    ( /\ call.op \in {"create_vm", "create_proxmox_vm", "create_vm_from_qcow2"}
      /\ \/ call.config.name = ""
         \/ call.config.vcpus = 0
         \/ call.config.memory < MinMemoryMb )
    => /\ call.out.ret.status = "Err"
       /\ call.out.hv = call.hv0

\* C26: parse_vm_from_xml returns an error for a descriptor in which a
\* mandatory field cannot be read: one with no <name> element or with no
\* <uuid> element.
C26_MissingMandatoryIsError ==
    ( /\ xmlInfo # NoInfo
      /\ \/ ~\E i \in 1..Len(Flatten(xmlDoc)) : Flatten(xmlDoc)[i].tag = "name"
         \/ ~\E i \in 1..Len(Flatten(xmlDoc)) : Flatten(xmlDoc)[i].tag = "uuid" )
    => xmlInfo.status = "Err"

\* the port values written on the graphics elements of one kind
PortsOf(kind) ==
    LET elems == {Flatten(xmlDoc)[i] : i \in 1..Len(Flatten(xmlDoc))}
        ofKind == {e \in elems : e.tag = "graphics" /\ Attr("type", kind) = e.attrs[1]}
    IN  UNION { {e.attrs[k].value : k \in {j \in 1..Len(e.attrs) : e.attrs[j].name = "port"}} :
                e \in ofKind } \ {"-1"}

\* a parsed port that comes from the graphics elements of its own kind:
\* None when none of them carries a port other than -1, else one of theirs
PortFromKind(port, kind) ==
    IF PortsOf(kind) = {} THEN port = None
    ELSE port.some /\ ToString(port.value) \in PortsOf(kind)

\* C27: vnc_port is read from the VNC graphics elements only and spice_port
\* from the SPICE graphics elements only, whatever graphics elements the
\* descriptor has and in whatever order, and a port written as -1 gives None.
C27_PortsByKind ==
    (xmlInfo # NoInfo /\ xmlDoc \in GraphicsDocuments) =>
        /\ PortFromKind(xmlInfo.vnc_port, "vnc")
        /\ PortFromKind(xmlInfo.spice_port, "spice")


\* C28: the guest_agent_connected flag of a VmStats snapshot, from
\* get_vm_stats as from get_real_time_stats, is true exactly when the
\* descriptor of the domain declares the guest agent channel.
C28_AgentFlagFollowsDescriptor ==
    ( /\ call.op \in {"get_vm_stats", "get_real_time_stats"}
      /\ call.out.ret.status = "Ok"
      /\ call.out.ret.stats.valid )
    => ( call.out.ret.stats.guest_agent_connected
           <=> (CallDomain # NotFound /\ call.hv0[CallDomain].agent) )

\* the snapshot of get_real_time_stats for a domain that declares the channel
C28_RealTimeSeesChannel ==
    /\ call.op = "get_real_time_stats"
    /\ call.out.ret.status = "Ok"
    /\ call.out.ret.stats.guest_agent_connected

\* C29: refresh_vm_cache fails exactly when the listing fails and then
\* leaves vm_cache as it was; when it succeeds, vm_cache holds one record
\* for each VM of the listing (the domains whose conversion worked), under
\* that VM's id, and nothing else: no record from before survives unless the
\* listing has it.
C29_RefreshReplacesCache ==
    call.op = "refresh_vm_cache" =>
        LET listed == {u \in DOMAIN call.hv0 : ConvFail("", u) \notin call.fails}
        IN  /\ (call.out.ret.status = "Err") <=> ("list" \in call.fails)
            /\ call.out.ret.status = "Err" => call.out.cache = call.cache0
            /\ call.out.ret.status = "Ok" =>
                 /\ DOMAIN call.out.cache = listed
                 /\ \A k \in listed :
                      /\ call.out.cache[k].id = k
                      /\ call.out.cache[k].name = call.hv0[k].name
            /\ call.out.hv = call.hv0

\* a refresh that drops a record the hypervisor no longer lists and keeps one
C29_Witness ==
    /\ call.op = "refresh_vm_cache"
    /\ call.out.ret.status = "Ok"
    /\ DOMAIN call.cache0 \ DOMAIN call.out.cache # {}
    /\ call.out.cache # EmptyMap

\* a refresh whose listing fails over a cache that has records
C29_WitnessListingFails ==
    /\ call.op = "refresh_vm_cache"
    /\ call.out.ret.status = "Err"
    /\ call.cache0 # EmptyMap
    /\ call.out.cache = call.cache0

\* a create_vm call whose define went through and whose start failed
StartFailedAfterDefine ==
    /\ call.op = "create_vm"
    /\ "create" \in call.fails
    /\ ValidateVmConfig(call.config) = ""
    /\ "define" \notin call.fails
    /\ ~\E u \in DOMAIN call.hv0 : call.hv0[u].name = call.config.name

\* C30: when create_vm's define succeeds and its start fails, create_vm
\* returns VmOperationFailed, sends no undefine and does not refresh
\* vm_cache: the new domain stays defined (and shut off) in the hypervisor,
\* vm_cache is as before and has no record of it, and a refresh adds it.
C30_StartFailureLeavesDomain ==
    StartFailedAfterDefine =>
        /\ call.out.ret.status = "Err"
        /\ call.out.ret.err = "VmOperationFailed"
        /\ call.out.ret.msg = "Failed to start VM"
        /\ call.out.reqs = <<"define", "create">>
        /\ call.out.cache = call.cache0
        /\ \E u \in DOMAIN call.out.hv \ DOMAIN call.hv0 :
             /\ DOMAIN call.out.hv = DOMAIN call.hv0 \cup {u}
             /\ call.out.hv[u].name = call.config.name
             /\ ~IsActive(call.out.hv[u])
             /\ u \notin DOMAIN call.out.cache
             /\ u \in DOMAIN RefreshVmCache(call.out.hv, call.out.cache, {}).cache

\* such a call, made while the cache already holds another VM
C30_Witness ==
    /\ StartFailedAfterDefine
    /\ call.cache0 # EmptyMap
    /\ call.out.ret.msg = "Failed to start VM"
    /\ Cardinality(DOMAIN call.out.hv) = Cardinality(DOMAIN call.hv0) + 1

====
